---------------------------- MODULE Spec2Model ----------------------------
(***************************************************************************)
(* A model of JericoFX Lua Tools: the lexical sanitizer (tokenizeLua), the *)
(* diagnostic passes that run over its output, the debounced scan          *)
(* orchestrator of extension.ts, the DocumentationManager's download       *)
(* semaphore and refresh, and the DocumentationParser.                     *)
(*                                                                         *)
(* Texts are TLA+ strings; a character is a string of length one.  Offsets *)
(* are 0-based as in the source: At(s, i) is the source's s[i], and is ""  *)
(* (JavaScript's undefined) outside the string.                            *)
(***************************************************************************)
EXTENDS Integers, Sequences, FiniteSets, TLC

VARIABLES
    \* ---- lexer and diagnostic passes (extension.ts) ----
    text,            \* the document text handed to createLuaDiagnosticContext
    context,         \* the LuaDiagnosticContext built from it, or NoContext
    resanitized,     \* tokenizeLua applied to context.sanitizedText, or NotRun
    config,          \* the settings that are switched on
    diagnostics,     \* what scanDocument handed to the diagnostic collection
    lexPc            \* "input" -> "context" -> "done"

lexVars == <<text, context, resanitized, config, diagnostics, lexPc>>

VARIABLES
    \* ---- scan orchestrator (extension.ts) ----
    isOpen,               \* the documents the editor holds open
    docText,              \* each document's current text
    documentScanTimers,   \* uri -> the id of its debounce timer, 0 for none
    armedTimers,          \* the timers set and neither cleared nor fired
    diagnosticCollection, \* uri -> the published diagnostics, or NotPublished
    wsPending,            \* files the workspace scan is still opening
    burst,                \* uri -> scan triggers since its burst began
    burstScans,           \* uri -> scans the timers of that burst have run
    quiet                 \* uri -> closed, and not triggered since

schedVars == <<isOpen, docText, documentScanTimers, armedTimers,
               diagnosticCollection, wsPending, burst, burstScans, quiet>>

VARIABLES
    \* ---- documentation manager (documentation-manager.ts) ----
    documentationSources, \* the setting: the configured sources, in order
    cache,                \* this.cache: the entries in insertion order
    cacheFile,            \* documentation.json, or NoFile
    activeDownloads,      \* this.activeDownloads
    downloadQueue,        \* this.downloadQueue
    downloads,            \* the downloadAndParseSource calls in flight
    refreshes,            \* the refreshDocumentation calls and their progress
    stored,               \* source name -> the body last parsed and cached
    managerPc             \* "idle"; "loaded" when the constructor has read
                          \* documentation.json; "asking" while the dialog
                          \* of clearDocumentationCache is open; "cleared"
                          \* from its end to the next refresh or added source

docsVars == <<documentationSources, cache, cacheFile, activeDownloads,
              downloadQueue, downloads, refreshes, stored, managerPc>>

VARIABLES
    \* ---- documentation parser (documentation-parser.ts) ----
    content,              \* the text handed to the parser
    functions,            \* the function map it returned
    parsePc               \* "input" before the call, "done" after it

parseVars == <<content, functions, parsePc>>

VARIABLES
    \* ---- fetchWithRetries (documentation-manager.ts) ----
    attempt,              \* let attempt
    lastError,            \* let lastError
    aborted,              \* options.signal.aborted
    fetchPc,              \* "fetching", "delaying", "returned" or "thrown"
    fetchResult,          \* the response returned or the error thrown
    attemptLog,           \* what each fetch met and how it settled
    delayLog              \* the arguments of the calls of this.delay

fetchVars == <<attempt, lastError, aborted, fetchPc, fetchResult, attemptLog,
               delayLog>>

vars == <<lexVars, schedVars, docsVars, parseVars, fetchVars>>

\* what the actions of one component leave alone
exceptLex   == <<schedVars, docsVars, parseVars, fetchVars>>
exceptSched == <<lexVars, docsVars, parseVars, fetchVars>>
exceptDocs  == <<lexVars, schedVars, parseVars, fetchVars>>
exceptParse == <<lexVars, schedVars, docsVars, fetchVars>>
exceptFetch == <<lexVars, schedVars, docsVars, parseVars>>

\* no result yet, no error yet
Nothing == [kind |-> "nothing", status |-> 0, error |-> ""]

FetchIdle ==
    /\ attempt = 0
    /\ lastError = Nothing
    /\ aborted = FALSE
    /\ fetchPc = "idle"
    /\ fetchResult = Nothing
    /\ attemptLog = <<>>
    /\ delayLog = <<>>

ParseIdle ==
    /\ content = ""
    /\ functions = <<>>
    /\ parsePc = "idle"

----------------------------------------------------------------------------
(* Bounds of the model. *)

MaxPieces == 4        \* a lexer input is at most this many pieces long
MaxDocLines == 5      \* a scanned document is at most this many lines long
MaxBurst == 3         \* a burst of scan triggers is at most this long
MaxRefreshes == 2     \* refreshDocumentation is called at most this often
MaxParseLines == 4    \* a parsed text is at most this many lines long

----------------------------------------------------------------------------
(* Strings. *)

At(s, i) == IF i >= 0 /\ i < Len(s) THEN SubSeq(s, i + 1, i + 1) ELSE ""

\* s.substring(from, to) / s.slice(from, to) for 0 <= from, to
Slice(s, from, to) ==
    LET t == IF to > Len(s) THEN Len(s) ELSE to
    IN  IF from >= t THEN "" ELSE SubSeq(s, from + 1, t)

RECURSIVE Spaces(_)
\* ' '.repeat(n)
Spaces(n) == IF n <= 0 THEN "" ELSE " " \o Spaces(n - 1)

RECURSIVE Flatten(_)
Flatten(ps) == IF ps = <<>> THEN "" ELSE Head(ps) \o Flatten(Tail(ps))

----------------------------------------------------------------------------
(* isLongBracketStart, isLongBracketEnd. *)

RECURSIVE CountEquals(_, _, _)
\* the number of '=' read by `while (text[cursor] === '=' ...)`, at most cap
CountEquals(s, cursor, cap) ==
    IF cap > 0 /\ At(s, cursor) = "="
    THEN 1 + CountEquals(s, cursor + 1, cap - 1)
    ELSE 0

isLongBracketStart(s, index) ==
    IF At(s, index) # "["
    THEN [length |-> 0, level |-> -1]
    ELSE LET level  == CountEquals(s, index + 1, Len(s))
             cursor == index + 1 + level
         IN  IF At(s, cursor) = "["
             THEN [length |-> cursor - index + 1, level |-> level]
             ELSE [length |-> 0, level |-> -1]

\* a closer test that accepts any number of '='
isLongBracketEndAnyLevel(s, index, level) ==
    IF At(s, index) # "]"
    THEN [matches |-> FALSE, length |-> 0]
    ELSE LET matchedEquals == CountEquals(s, index + 1, Len(s))
             cursor        == index + 1 + matchedEquals
         IN  IF At(s, cursor) = "]"
             THEN [matches |-> TRUE, length |-> cursor - index + 1]
             ELSE [matches |-> FALSE, length |-> 0]

isLongBracketEnd(s, index, level) ==
    IF At(s, index) # "]"
    THEN [matches |-> FALSE, length |-> 0]
    ELSE \* the loop runs while matchedEquals <= level: at most level + 1 times
         LET matchedEquals == CountEquals(s, index + 1, level + 1)
             cursor        == index + 1 + matchedEquals
         IN  IF matchedEquals = level /\ At(s, cursor) = "]"
             THEN [matches |-> TRUE, length |-> cursor - index + 1]
             ELSE [matches |-> FALSE, length |-> 0]

----------------------------------------------------------------------------
(* tokenizeLua: the locals of the function, one loop iteration, the loop.  *)

TokInit ==
    [i |-> 0, result |-> "",
     inLineComment |-> FALSE,
     inBlockComment |-> FALSE, blockCommentLevel |-> 0,
     inString |-> FALSE, stringDelimiter |-> "",
     inLongString |-> FALSE, longStringLevel |-> 0]

\* a masking that forgets the newline test
MaskNoNewline(char) == " "

Mask(char) == IF char = "\n" THEN "\n" ELSE " "

TokLineComment(s, st) ==
    LET char == At(s, st.i)
    IN  IF char = "\n"
        THEN [st EXCEPT !.inLineComment = FALSE,
                        !.result = @ \o "\n", !.i = @ + 1]
        ELSE [st EXCEPT !.result = @ \o " ", !.i = @ + 1]

\* a block comment state that ends the comment at the end of its line
TokBlockCommentEndsAtLine(s, st) ==
    IF At(s, st.i) = "\n"
    THEN [st EXCEPT !.result = @ \o "\n", !.i = @ + 1,
                    !.inBlockComment = FALSE]
    ELSE [st EXCEPT !.result = @ \o " ", !.i = @ + 1]

TokBlockComment(s, st) ==
    LET e == isLongBracketEnd(s, st.i, st.blockCommentLevel)
    IN  IF e.matches
        THEN [st EXCEPT !.result = @ \o Spaces(e.length), !.i = @ + e.length,
                        !.inBlockComment = FALSE]
        ELSE [st EXCEPT !.result = @ \o Mask(At(s, st.i)), !.i = @ + 1]

TokLongString(s, st) ==
    LET e == isLongBracketEnd(s, st.i, st.longStringLevel)
    IN  IF e.matches
        THEN [st EXCEPT !.result = @ \o Spaces(e.length), !.i = @ + e.length,
                        !.inLongString = FALSE]
        ELSE [st EXCEPT !.result = @ \o Mask(At(s, st.i)), !.i = @ + 1]

\* a string state that copies the closing delimiter instead of masking it
TokStringKeepsDelimiter(s, st) ==
    LET char == At(s, st.i)
    IN  IF char = "\\" /\ st.i + 1 < Len(s)
        THEN [st EXCEPT !.result = @ \o " " \o Mask(At(s, st.i + 1)),
                        !.i = @ + 2]
        ELSE IF char = st.stringDelimiter
        THEN [st EXCEPT !.result = @ \o char, !.inString = FALSE, !.i = @ + 1]
        ELSE [st EXCEPT !.result = @ \o Mask(char), !.i = @ + 1]

\* a string state that stays on a backslash that ends the text
TokStringStopsAtBackslash(s, st) ==
    LET char == At(s, st.i)
    IN  IF char = "\\" /\ st.i + 1 < Len(s)
        THEN [st EXCEPT !.result = @ \o " " \o Mask(At(s, st.i + 1)),
                        !.i = @ + 2]
        ELSE IF char = "\\"
        THEN st
        ELSE IF char = st.stringDelimiter
        THEN [st EXCEPT !.result = @ \o " ", !.inString = FALSE, !.i = @ + 1]
        ELSE [st EXCEPT !.result = @ \o Mask(char), !.i = @ + 1]

TokString(s, st) ==
    LET char == At(s, st.i)
    IN  IF char = "\\" /\ st.i + 1 < Len(s)
        THEN [st EXCEPT !.result = @ \o " " \o Mask(At(s, st.i + 1)),
                        !.i = @ + 2]
        ELSE IF char = st.stringDelimiter
        THEN [st EXCEPT !.result = @ \o " ", !.inString = FALSE, !.i = @ + 1]
        ELSE [st EXCEPT !.result = @ \o Mask(char), !.i = @ + 1]

TokDefault(s, st) ==
    LET char == At(s, st.i)
        cs   == isLongBracketStart(s, st.i + 2)
        ls   == isLongBracketStart(s, st.i)
    IN  IF char = "-" /\ At(s, st.i + 1) = "-"
        THEN IF cs.length > 0
             THEN [st EXCEPT !.inBlockComment = TRUE,
                             !.blockCommentLevel = cs.level,
                             !.result = @ \o Spaces(2 + cs.length),
                             !.i = @ + 2 + cs.length]
             ELSE [st EXCEPT !.inLineComment = TRUE,
                             !.result = @ \o "  ", !.i = @ + 2]
        ELSE IF ls.length > 0
        THEN [st EXCEPT !.inLongString = TRUE,
                        !.longStringLevel = ls.level,
                        !.result = @ \o Spaces(ls.length),
                        !.i = @ + ls.length]
        ELSE IF char = "\"" \/ char = "'"
        THEN [st EXCEPT !.inString = TRUE, !.stringDelimiter = char,
                        !.result = @ \o " ", !.i = @ + 1]
        ELSE [st EXCEPT !.result = @ \o char, !.i = @ + 1]

\* one iteration of `while (i < text.length)`
TokStep(s, st) ==
    IF st.inLineComment THEN TokLineComment(s, st)
    ELSE IF st.inBlockComment THEN TokBlockComment(s, st)
    ELSE IF st.inLongString THEN TokLongString(s, st)
    ELSE IF st.inString THEN TokString(s, st)
    ELSE TokDefault(s, st)

\* one iteration more, unless the loop's test fails
TokNextStep(s, st) == IF st.i < Len(s) THEN TokStep(s, st) ELSE st

\* up to four iterations
TokFourSteps(s, st) ==
    TokNextStep(s, TokNextStep(s, TokNextStep(s, TokNextStep(s, st))))

RECURSIVE TokLoop(_, _)
\* the loop, eight iterations to a level of the recursion
TokLoop(s, st) ==
    IF st.i < Len(s)
    THEN TokLoop(s, TokFourSteps(s, TokFourSteps(s, st)))
    ELSE st

tokenizeLua(s) == TokLoop(s, TokInit).result

----------------------------------------------------------------------------
(* text.split(/\r?\n/) and createLuaDiagnosticContext. *)

RECURSIVE SplitFrom(_, _, _)
\* the pieces of s from offset `from` on, the next '\n' sought from `k` on
SplitFrom(s, from, k) ==
    LET newlines == {j \in k..(Len(s) - 1) : At(s, j) = "\n"}
    IN  IF newlines = {} THEN <<Slice(s, from, Len(s))>>
        ELSE LET n    == CHOOSE j \in newlines : \A m \in newlines : j <= m
                 stop == IF n > from /\ At(s, n - 1) = "\r" THEN n - 1 ELSE n
             IN  <<Slice(s, from, stop)>> \o SplitFrom(s, n + 1, n + 1)

SplitLines(s) == SplitFrom(s, 0, 0)

NoContext == [none |-> TRUE]
NotRun == <<"not run">>

createLuaDiagnosticContext(t) ==
    LET sanitizedText == tokenizeLua(t)
    IN  [text |-> t,
         sanitizedText |-> sanitizedText,
         lines |-> SplitLines(t),
         sanitizedLines |-> SplitLines(sanitizedText)]

----------------------------------------------------------------------------
(* Character classes and the string methods the passes use. *)

Lower == {"a","b","c","d","e","f","g","h","i","j","k","l","m",
          "n","o","p","q","r","s","t","u","v","w","x","y","z"}
Upper == {"A","B","C","D","E","F","G","H","I","J","K","L","M",
          "N","O","P","Q","R","S","T","U","V","W","X","Y","Z"}
Digit == {"0","1","2","3","4","5","6","7","8","9"}

IsWs(c)        == c \in {" ", "\t", "\n", "\r"}        \* \s
IsWordChar(c)  == c \in Lower \cup Upper \cup Digit \cup {"_"}   \* \w
IsIdentStart(c) == c \in Lower \cup Upper \cup {"_"}   \* [a-zA-Z_]
IsLineEnd(c)   == c \in {"\n", "\r"}                   \* what `.` refuses

\* \b at offset i: exactly one of s[i-1], s[i] is a word character
WordBoundary(s, i) == IsWordChar(At(s, i - 1)) # IsWordChar(At(s, i))

StartsWithAt(s, pat, i) ==
    i >= 0 /\ i + Len(pat) <= Len(s) /\ Slice(s, i, i + Len(pat)) = pat

RECURSIVE IndexOfFrom(_, _, _)
IndexOfFrom(s, pat, from) ==
    IF from + Len(pat) > Len(s) THEN -1
    ELSE IF StartsWithAt(s, pat, from) THEN from
    ELSE IndexOfFrom(s, pat, from + 1)

IndexOf(s, pat)  == IndexOfFrom(s, pat, 0)     \* s.indexOf(pat)
Includes(s, pat) == IndexOf(s, pat) >= 0       \* s.includes(pat)

RECURSIVE SkipWhile(_, _, _)
\* the first offset >= i whose character is not in class (Len(s) at the end)
SkipWhile(s, i, class) ==
    IF i < Len(s) /\ At(s, i) \in class THEN SkipWhile(s, i + 1, class) ELSE i

WsChars    == {" ", "\t", "\n", "\r"}
WordChars  == Lower \cup Upper \cup Digit \cup {"_"}

RECURSIVE TrimEnd(_)
TrimEnd(s) ==
    IF Len(s) > 0 /\ IsWs(At(s, Len(s) - 1))
    THEN TrimEnd(Slice(s, 0, Len(s) - 1)) ELSE s

Trim(s) == TrimEnd(Slice(s, SkipWhile(s, 0, WsChars), Len(s)))   \* s.trim()

LineAt(ls, n) == ls[n + 1]       \* lines[n], for 0 <= n < lines.length

----------------------------------------------------------------------------
(* A diagnostic: its code, severity and range (one line, two columns). *)

Diagnostic(code, severity, line, from, to) ==
    [code |-> code, severity |-> severity,
     line |-> line, start |-> from, end |-> to]

----------------------------------------------------------------------------
(* findBlockEnd *)

RECURSIVE BlockEndEndFirst(_, _, _, _, _)
\* a loop that tests the end keyword before the start keyword
BlockEndEndFirst(ls, i, depth, startKeyword, endKeyword) ==
    IF i >= Len(ls) THEN -1
    ELSE LET sanitizedLine == Trim(LineAt(ls, i))
             d1 == IF Includes(sanitizedLine, endKeyword)
                   THEN depth - 1 ELSE depth
             d2 == IF Includes(sanitizedLine, startKeyword)
                   THEN d1 + 1 ELSE d1
         IN  IF sanitizedLine = ""
             THEN BlockEndEndFirst(ls, i + 1, depth, startKeyword, endKeyword)
             ELSE IF Includes(sanitizedLine, endKeyword) /\ d1 = 0 THEN i
             ELSE BlockEndEndFirst(ls, i + 1, d2, startKeyword, endKeyword)

RECURSIVE BlockEndFrom(_, _, _, _, _)
BlockEndFrom(ls, i, depth, startKeyword, endKeyword) ==
    IF i >= Len(ls) THEN -1
    ELSE LET sanitizedLine == Trim(LineAt(ls, i))
             d1 == IF Includes(sanitizedLine, startKeyword)
                   THEN depth + 1 ELSE depth
             d2 == IF Includes(sanitizedLine, endKeyword) THEN d1 - 1 ELSE d1
         IN  IF sanitizedLine = ""
             THEN BlockEndFrom(ls, i + 1, depth, startKeyword, endKeyword)
             ELSE IF Includes(sanitizedLine, endKeyword) /\ d2 = 0 THEN i
             ELSE BlockEndFrom(ls, i + 1, d2, startKeyword, endKeyword)

findBlockEnd(sanitizedLines, startIndex, startKeyword, endKeyword) ==
    BlockEndFrom(sanitizedLines, startIndex + 1, 1, startKeyword, endKeyword)

----------------------------------------------------------------------------
(* checkWhileLoops, checkRepeatLoops *)

\* /\b(Wait|Citizen\.Wait)\s*\(/.test(line)
HasWaitCall(line) ==
    \E i \in 0..(Len(line) - 1) :
        /\ WordBoundary(line, i)
        /\ \E name \in {"Wait", "Citizen.Wait"} :
              /\ StartsWithAt(line, name, i)
              /\ At(line, SkipWhile(line, i + Len(name), WsChars)) = "("

\* `\s+.+\s+` matches exactly line[from .. to-1]
WsAnyWs(line, from, to) ==
    /\ to - from >= 3
    /\ IsWs(At(line, from))
    /\ IsWs(At(line, to - 1))
    /\ \E a \in (from + 1)..(to - 2) : \E b \in (a + 1)..(to - 1) :
          /\ \A k \in from..(a - 1) : IsWs(At(line, k))
          /\ \A k \in a..(b - 1) : ~IsLineEnd(At(line, k))
          /\ \A k \in b..(to - 1) : IsWs(At(line, k))

\* /\bwhile\s+.+\s+do\b/ matches line[i .. j+1], "do" at offset j
WhileMatchAt(line, i, j) ==
    /\ StartsWithAt(line, "do", j)
    /\ WordBoundary(line, j + 2)
    /\ WsAnyWs(line, i + 5, j)

\* line.match(/\bwhile\s+.+\s+do\b/): the leftmost start, the longest match
WhileMatch(line) ==
    LET starts == {i \in 0..(Len(line) - 1) :
                      /\ StartsWithAt(line, "while", i)
                      /\ WordBoundary(line, i)
                      /\ \E j \in (i + 8)..(Len(line) - 1) :
                            WhileMatchAt(line, i, j)}
    IN  IF starts = {} THEN [found |-> FALSE, index |-> -1, length |-> 0]
        ELSE LET i  == CHOOSE x \in starts : \A y \in starts : x <= y
                 js == {j \in (i + 8)..(Len(line) - 1) :
                           WhileMatchAt(line, i, j)}
                 j  == CHOOSE x \in js : \A y \in js : y <= x
             IN  [found |-> TRUE, index |-> i, length |-> j + 2 - i]

\* line.match(/\brepeat\b/)
RepeatMatch(line) ==
    LET starts == {i \in 0..(Len(line) - 1) :
                      /\ WordBoundary(line, i)
                      /\ StartsWithAt(line, "repeat", i)
                      /\ WordBoundary(line, i + 6)}
    IN  IF starts = {} THEN [found |-> FALSE, index |-> -1, length |-> 0]
        ELSE [found |-> TRUE,
              index |-> CHOOSE x \in starts : \A y \in starts : x <= y,
              length |-> 6]

\* sanitizedLines.slice(from, to).some(line => wait test)
SomeWaitIn(sanitizedLines, from, to) ==
    \E n \in from..(to - 1) :
        n < Len(sanitizedLines) /\ HasWaitCall(LineAt(sanitizedLines, n))

RECURSIVE WhileLoopsFrom(_, _)
WhileLoopsFrom(ctx, lineIndex) ==
    IF lineIndex >= Len(ctx.sanitizedLines) THEN <<>>
    ELSE LET sanitizedLine == LineAt(ctx.sanitizedLines, lineIndex)
             whileMatch    == WhileMatch(sanitizedLine)
             whileBlockEnd ==
                 findBlockEnd(ctx.sanitizedLines, lineIndex, "while", "end")
             here ==
                 IF Trim(sanitizedLine) = "" \/ ~whileMatch.found
                    \/ whileBlockEnd = -1
                    \/ SomeWaitIn(ctx.sanitizedLines, lineIndex + 1,
                                  whileBlockEnd)
                 THEN <<>>
                 ELSE <<Diagnostic("fivem-while-no-wait", "Warning", lineIndex,
                                   whileMatch.index,
                                   whileMatch.index + whileMatch.length)>>
         IN  here \o WhileLoopsFrom(ctx, lineIndex + 1)

checkWhileLoops(ctx) == WhileLoopsFrom(ctx, 0)

RECURSIVE RepeatLoopsFrom(_, _)
RepeatLoopsFrom(ctx, lineIndex) ==
    IF lineIndex >= Len(ctx.sanitizedLines) THEN <<>>
    ELSE LET sanitizedLine  == LineAt(ctx.sanitizedLines, lineIndex)
             repeatMatch    == RepeatMatch(sanitizedLine)
             repeatBlockEnd ==
                 findBlockEnd(ctx.sanitizedLines, lineIndex, "repeat", "until")
             here ==
                 IF Trim(sanitizedLine) = "" \/ ~repeatMatch.found
                    \/ repeatBlockEnd = -1
                    \/ SomeWaitIn(ctx.sanitizedLines, lineIndex + 1,
                                  repeatBlockEnd)
                 THEN <<>>
                 ELSE <<Diagnostic("fivem-repeat-no-wait", "Warning", lineIndex,
                                   repeatMatch.index,
                                   repeatMatch.index + repeatMatch.length)>>
         IN  here \o RepeatLoopsFrom(ctx, lineIndex + 1)

checkRepeatLoops(ctx) == RepeatLoopsFrom(ctx, 0)

----------------------------------------------------------------------------
(* checkPerformanceIssues: found on the sanitized line, placed by indexOf  *)
(* on the raw line.                                                        *)

\* a performance finding raised to a warning
PerfWarning(ctx, lineIndex, pattern, code) ==
    LET line == LineAt(ctx.lines, lineIndex)
    IN  IF Includes(LineAt(ctx.sanitizedLines, lineIndex), pattern)
        THEN <<Diagnostic(code, "Warning", lineIndex, IndexOf(line, pattern),
                          IndexOf(line, pattern) + Len(pattern))>>
        ELSE <<>>

PerfHint(ctx, lineIndex, pattern, code) ==
    LET line == LineAt(ctx.lines, lineIndex)
    IN  IF Includes(LineAt(ctx.sanitizedLines, lineIndex), pattern)
        THEN <<Diagnostic(code, "Hint", lineIndex, IndexOf(line, pattern),
                          IndexOf(line, pattern) + Len(pattern))>>
        ELSE <<>>

RECURSIVE PerformanceFrom(_, _)
PerformanceFrom(ctx, lineIndex) ==
    IF lineIndex >= Len(ctx.sanitizedLines) THEN <<>>
    ELSE PerfHint(ctx, lineIndex, "GetPlayerPed(-1)", "fivem-performance-ped")
         \o PerfHint(ctx, lineIndex, "GetEntityCoords(PlayerPedId())",
                     "fivem-cache-coords")
         \o PerformanceFrom(ctx, lineIndex + 1)

checkPerformanceIssues(ctx) == PerformanceFrom(ctx, 0)

\* the lines a pass reads with `const { lines } = context`
RawLines(ctx) == ctx.lines

----------------------------------------------------------------------------
(* checkCitizenPatterns: reads context.lines, the raw lines. *)

CitizenInfo(line, lineIndex, pattern, code) ==
    IF Includes(line, pattern)
    THEN <<Diagnostic(code, "Information", lineIndex, IndexOf(line, pattern),
                      IndexOf(line, pattern) + Len(pattern))>>
    ELSE <<>>

RECURSIVE CitizenFrom(_, _)
CitizenFrom(ls, lineIndex) ==
    IF lineIndex >= Len(ls) THEN <<>>
    ELSE CitizenInfo(LineAt(ls, lineIndex), lineIndex,
                     "Citizen.CreateThread", "fivem-citizen-create-thread")
         \o CitizenInfo(LineAt(ls, lineIndex), lineIndex,
                        "Citizen.Wait", "fivem-citizen-wait")
         \o CitizenFrom(ls, lineIndex + 1)

checkCitizenPatterns(ctx) == CitizenFrom(RawLines(ctx), 0)

----------------------------------------------------------------------------
(* checkLocalFunctionOrder: reads context.lines, the raw lines. *)

\* /local\s+function\s+([a-zA-Z_][a-zA-Z0-9_]*)\s*\(/ matched at offset i:
\* the name's [from, to), or to = -1 without a match
LocalFunctionAt(line, i) ==
    LET w1   == SkipWhile(line, i + 5, WsChars)
        w2   == SkipWhile(line, w1 + 8, WsChars)
        nEnd == SkipWhile(line, w2, WordChars)
        ok   == /\ StartsWithAt(line, "local", i)
                /\ w1 > i + 5
                /\ StartsWithAt(line, "function", w1)
                /\ w2 > w1 + 8
                /\ IsIdentStart(At(line, w2))
                /\ At(line, SkipWhile(line, nEnd, WsChars)) = "("
    IN  [from |-> w2, to |-> IF ok THEN nEnd ELSE -1]

\* line.match(...): the name of the leftmost declaration on the line, or ""
LocalFunctionName(line) ==
    LET starts == {i \in 0..(Len(line) - 1) : LocalFunctionAt(line, i).to >= 0}
    IN  IF starts = {} THEN ""
        ELSE LET i == CHOOSE x \in starts : \A y \in starts : x <= y
                 m == LocalFunctionAt(line, i)
             IN  Slice(line, m.from, m.to)

RECURSIVE DeclarationsFrom(_, _, _)
\* first pass: name -> line of its last declaration (Map.set overwrites)
DeclarationsFrom(ls, lineIndex, decls) ==
    IF lineIndex >= Len(ls) THEN decls
    ELSE LET functionName == LocalFunctionName(LineAt(ls, lineIndex))
         IN  DeclarationsFrom(ls, lineIndex + 1,
                 IF functionName = "" THEN decls
                 ELSE [n \in DOMAIN decls \cup {functionName} |->
                          IF n = functionName THEN lineIndex ELSE decls[n]])

RECURSIVE CallsOnLine(_, _, _, _)
\* /\b([a-zA-Z_][a-zA-Z0-9_]*)\s*\(/g from offset `from`, kept when declared
CallsOnLine(line, from, lineIndex, decls) ==
    IF from >= Len(line) THEN <<>>
    ELSE LET nEnd  == SkipWhile(line, from, WordChars)
             paren == SkipWhile(line, nEnd, WsChars)
             ok    == /\ WordBoundary(line, from)
                      /\ IsIdentStart(At(line, from))
                      /\ At(line, paren) = "("
             name  == Slice(line, from, nEnd)
         IN  IF ok
             THEN (IF name \in DOMAIN decls
                   THEN <<[name |-> name, line |-> lineIndex, column |-> from]>>
                   ELSE <<>>)
                  \o CallsOnLine(line, paren + 1, lineIndex, decls)
             ELSE CallsOnLine(line, from + 1, lineIndex, decls)

RECURSIVE FunctionCallsFrom(_, _, _)
\* second pass: comment lines and declaration lines are skipped
FunctionCallsFrom(ls, lineIndex, decls) ==
    IF lineIndex >= Len(ls) THEN <<>>
    ELSE LET line == LineAt(ls, lineIndex)
         IN  (IF StartsWithAt(Trim(line), "--", 0)
                 \/ LocalFunctionName(line) # ""
              THEN <<>>
              ELSE CallsOnLine(line, 0, lineIndex, decls))
             \o FunctionCallsFrom(ls, lineIndex + 1, decls)

RECURSIVE OrderErrorsAnywhere(_, _)
\* the third pass without its comparison of the two lines
OrderErrorsAnywhere(calls, decls) ==
    IF calls = <<>> THEN <<>>
    ELSE LET call == Head(calls)
         IN  <<Diagnostic("lua-function-order-error", "Error", call.line,
                          call.column, call.column + Len(call.name))>>
             \o OrderErrorsAnywhere(Tail(calls), decls)

RECURSIVE OrderErrors(_, _)
\* third pass: a call on a line before the declaration line
OrderErrors(calls, decls) ==
    IF calls = <<>> THEN <<>>
    ELSE LET call == Head(calls)
         IN  (IF call.line < decls[call.name]
              THEN <<Diagnostic("lua-function-order-error", "Error", call.line,
                                call.column, call.column + Len(call.name))>>
              ELSE <<>>)
             \o OrderErrors(Tail(calls), decls)

checkLocalFunctionOrder(ctx) ==
    LET ls    == RawLines(ctx)
        decls == DeclarationsFrom(ls, 0, <<>>)
    IN  OrderErrors(FunctionCallsFrom(ls, 0, decls), decls)

----------------------------------------------------------------------------
(* checkGlobalVariables *)

globalPatterns ==
    {"Config", "exports", "RegisterNetEvent", "RegisterServerEvent",
     "AddEventHandler", "TriggerEvent", "TriggerServerEvent",
     "TriggerClientEvent"}

\* (s.match(/c/g) || []).length
CountChar(s, c) == Cardinality({k \in 0..(Len(s) - 1) : At(s, k) = c})

Max0(n) == IF n < 0 THEN 0 ELSE n          \* Math.max(0, n)

RECURSIVE LocalNamesFrom(_, _)
\* the names of `ident (\s*,\s*ident)*` starting at offset i of s
LocalNamesFrom(s, i) ==
    IF ~IsIdentStart(At(s, i)) THEN {}
    ELSE LET nEnd  == SkipWhile(s, i, WordChars)
             comma == SkipWhile(s, nEnd, WsChars)
             next  == SkipWhile(s, comma + 1, WsChars)
         IN  {Slice(s, i, nEnd)}
             \cup (IF At(s, comma) = "," /\ IsIdentStart(At(s, next))
                   THEN LocalNamesFrom(s, next) ELSE {})

\* /^local\s+(ident(?:\s*,\s*ident)*)/ : the variables of the declaration
LocalMatchNames(trimmed) ==
    LET w == SkipWhile(trimmed, 5, WsChars)
    IN  IF StartsWithAt(trimmed, "local", 0) /\ w > 5
        THEN LocalNamesFrom(trimmed, w) ELSE {}

\* /^([a-zA-Z_][a-zA-Z0-9_]*)\s*=/ : the assigned name, or ""
AssignmentName(trimmed) ==
    LET nEnd == SkipWhile(trimmed, 0, WordChars)
    IN  IF IsIdentStart(At(trimmed, 0))
           /\ At(trimmed, SkipWhile(trimmed, nEnd, WsChars)) = "="
        THEN Slice(trimmed, 0, nEnd) ELSE ""

\* /^[a-zA-Z_][a-zA-Z0-9_]*\.[a-zA-Z_][a-zA-Z0-9_]*/.test(trimmed)
IsDottedAccess(trimmed) ==
    LET nEnd == SkipWhile(trimmed, 0, WordChars)
    IN  /\ IsIdentStart(At(trimmed, 0))
        /\ At(trimmed, nEnd) = "."
        /\ IsIdentStart(At(trimmed, nEnd + 1))

RECURSIVE GlobalsFrom(_, _, _, _, _)
GlobalsFrom(ctx, lineIndex, localVariables, tableDepth, functionDepth) ==
    IF lineIndex >= Len(ctx.lines) THEN <<>>
    ELSE
    LET line    == LineAt(ctx.lines, lineIndex)
        trimmed == Trim(LineAt(ctx.sanitizedLines, lineIndex))
        td == Max0(tableDepth + CountChar(trimmed, "{")
                              - CountChar(trimmed, "}"))
        f1 == IF Includes(trimmed, "function") /\ ~Includes(trimmed, "end")
              THEN functionDepth + 1 ELSE functionDepth
        fd == IF Includes(trimmed, "end") /\ ~Includes(trimmed, "function")
              THEN Max0(f1 - 1) ELSE f1
        locals == localVariables \cup LocalMatchNames(trimmed)
        name   == AssignmentName(trimmed)
        here ==
            IF /\ td = 0 /\ fd = 0
               /\ name # ""
               /\ ~StartsWithAt(trimmed, "local ", 0)
               /\ name \notin locals
               /\ name \notin globalPatterns
               /\ ~Includes(trimmed, "function")
               /\ ~Includes(trimmed, "{")
               /\ ~Includes(trimmed, "}")
               /\ ~IsDottedAccess(trimmed)
            THEN <<Diagnostic("fivem-global-variable", "Information",
                              lineIndex, IndexOf(line, name),
                              IndexOf(line, name) + Len(name))>>
            ELSE <<>>
    IN  IF trimmed = ""
        THEN GlobalsFrom(ctx, lineIndex + 1, localVariables,
                         tableDepth, functionDepth)
        ELSE here \o GlobalsFrom(ctx, lineIndex + 1, locals, td, fd)

checkGlobalVariables(ctx) == GlobalsFrom(ctx, 0, {}, 0, 0)

----------------------------------------------------------------------------
(* checkNetEventPatterns: reads context.lines, the raw lines. *)

Quotes == {"'", "\""}

RECURSIVE SkipUntil(_, _, _)
\* the first offset >= i whose character is in class (Len(s) at the end)
SkipUntil(s, i, class) ==
    IF i < Len(s) /\ At(s, i) \notin class THEN SkipUntil(s, i + 1, class) ELSE i

\* name\s*\(\s*['"]([^'"]+)['"] matched at offset i, followed by \s*\) when
\* closed is asked: [ok, event]
EventCallAt(line, name, i, closed) ==
    LET paren == SkipWhile(line, i + Len(name), WsChars)
        quote == SkipWhile(line, paren + 1, WsChars)
        stop  == SkipUntil(line, quote + 1, Quotes)
        ok    == /\ StartsWithAt(line, name, i)
                 /\ At(line, paren) = "("
                 /\ At(line, quote) \in Quotes
                 /\ stop > quote + 1
                 /\ At(line, stop) \in Quotes
                 /\ closed => At(line, SkipWhile(line, stop + 1, WsChars)) = ")"
    IN  [ok |-> ok, event |-> IF ok THEN Slice(line, quote + 1, stop) ELSE ""]

\* line.match(...): the leftmost match
EventCall(line, name, closed) ==
    LET starts == {i \in 0..(Len(line) - 1) :
                      EventCallAt(line, name, i, closed).ok}
    IN  IF starts = {} THEN [ok |-> FALSE, event |-> ""]
        ELSE EventCallAt(line, name,
                 CHOOSE x \in starts : \A y \in starts : x <= y, closed)

\* /function\s*\(\s*source\s*,(?!\s)/ matched at offset i: the end of the
\* match, or -1
SourceCommaAt(line, i) ==
    LET paren == SkipWhile(line, i + 8, WsChars)
        src   == SkipWhile(line, paren + 1, WsChars)
        comma == SkipWhile(line, src + 6, WsChars)
    IN  IF /\ StartsWithAt(line, "function", i)
           /\ At(line, paren) = "("
           /\ StartsWithAt(line, "source", src)
           /\ At(line, comma) = ","
           /\ ~IsWs(At(line, comma + 1))
        THEN comma + 1 ELSE -1

SourceComma(line) ==
    LET starts == {i \in 0..(Len(line) - 1) : SourceCommaAt(line, i) >= 0}
    IN  IF starts = {} THEN [found |-> FALSE, matched |-> ""]
        ELSE LET i == CHOOSE x \in starts : \A y \in starts : x <= y
             IN  [found |-> TRUE, matched |-> Slice(line, i, SourceCommaAt(line, i))]

RECURSIVE NetEventsFrom(_, _, _, _)
NetEventsFrom(ls, lineIndex, hasRegisterNetEvent, currentEventName) ==
    IF lineIndex >= Len(ls) THEN <<>>
    ELSE
    LET line     == LineAt(ls, lineIndex)
        register == EventCall(line, "RegisterNetEvent", TRUE)
        has      == hasRegisterNetEvent \/ register.ok
        current  == IF register.ok THEN register.event ELSE currentEventName
        server   == EventCall(line, "RegisterServerEvent", TRUE)
        nextLine == IF lineIndex + 1 < Len(ls)
                    THEN LineAt(ls, lineIndex + 1) ELSE ""
        handler  == EventCall(line, "AddEventHandler", FALSE)
        comma    == SourceComma(line)
        modern ==
            IF server.ok /\ ~Includes(nextLine, "AddEventHandler")
            THEN <<Diagnostic("fivem-modern-event", "Information", lineIndex,
                              0, Len(line))>>
            ELSE <<>>
        combine ==
            IF handler.ok /\ has /\ current = handler.event
            THEN <<Diagnostic("fivem-combine-event", "Hint", lineIndex,
                              0, Len(line))>>
            ELSE <<>>
        spacing ==
            IF comma.found
            THEN <<Diagnostic("fivem-style-spacing", "Hint", lineIndex,
                              IndexOf(line, comma.matched),
                              IndexOf(line, comma.matched) + Len(comma.matched))>>
            ELSE <<>>
    IN  modern \o combine \o spacing
        \o NetEventsFrom(ls, lineIndex + 1, has, current)

checkNetEventPatterns(ctx) == NetEventsFrom(RawLines(ctx), 0, FALSE, "")

----------------------------------------------------------------------------
(* scanDocument: the passes the configuration enables, in the source's     *)
(* order.  A configuration is the set of the enabled settings.             *)

Settings ==
    {"enableWhileLoopCheck", "enableRepeatLoopCheck",
     "enableGlobalVariableCheck", "enablePerformanceCheck",
     "enableNetEventCheck", "enableCitizenPatterns",
     "enableLocalFunctionOrderCheck"}

RunIf(cfg, setting, result) ==
    IF setting \in cfg THEN result ELSE <<>>

scanDocument(t, cfg) ==
    LET ctx == createLuaDiagnosticContext(t)
    IN  RunIf(cfg, "enableWhileLoopCheck", checkWhileLoops(ctx))
        \o RunIf(cfg, "enableRepeatLoopCheck", checkRepeatLoops(ctx))
        \o RunIf(cfg, "enableGlobalVariableCheck", checkGlobalVariables(ctx))
        \o RunIf(cfg, "enablePerformanceCheck", checkPerformanceIssues(ctx))
        \o RunIf(cfg, "enableNetEventCheck", checkNetEventPatterns(ctx))
        \o RunIf(cfg, "enableCitizenPatterns", checkCitizenPatterns(ctx))
        \o RunIf(cfg, "enableLocalFunctionOrderCheck",
                 checkLocalFunctionOrder(ctx))

----------------------------------------------------------------------------
(* The documentation parser (documentation-parser.ts): parseLuaTypes and   *)
(* the helpers it calls.  The regular expressions are matched by hand; a   *)
(* match is [found, name, params].                                         *)

NameChars == WordChars \cup {"."}       \* [a-zA-Z0-9_\.]

UpperSeq == "ABCDEFGHIJKLMNOPQRSTUVWXYZ"
LowerSeq == "abcdefghijklmnopqrstuvwxyz"

LowerOf(c) == IF c \in Upper THEN At(LowerSeq, IndexOf(UpperSeq, c)) ELSE c

RECURSIVE toLowerCase(_)
toLowerCase(s) ==
    IF s = "" THEN "" ELSE LowerOf(At(s, 0)) \o toLowerCase(Slice(s, 1, Len(s)))

RECURSIVE SplitOnFrom(_, _, _, _)
SplitOnFrom(s, sep, from, k) ==
    LET seps == {j \in k..(Len(s) - 1) : At(s, j) = sep}
    IN  IF seps = {} THEN <<Slice(s, from, Len(s))>>
        ELSE LET n == CHOOSE j \in seps : \A m \in seps : j <= m
             IN  <<Slice(s, from, n)>> \o SplitOnFrom(s, sep, n + 1, n + 1)

\* s.split(sep) for a one-character separator
SplitOn(s, sep) == SplitOnFrom(s, sep, 0, 0)

\* s.replace(pat, '') for a string pat: the first occurrence only
RemoveFirst(s, pat) ==
    LET at == IndexOf(s, pat)
    IN  IF at < 0 THEN s
        ELSE Slice(s, 0, at) \o Slice(s, at + Len(pat), Len(s))

NoMatch == [found |-> FALSE, name |-> "", params |-> ""]

\* the end of `.*` begun at i: the first line terminator, or the end
DotStarEnd(s, i) ==
    IF \E k \in i..(Len(s) - 1) : IsLineEnd(At(s, k))
    THEN CHOOSE k \in i..(Len(s) - 1) :
             /\ IsLineEnd(At(s, k))
             /\ \A m \in i..(k - 1) : ~IsLineEnd(At(s, m))
    ELSE Len(s)

\* \s*\((.*?)\) at p
ParenTail(s, p, name) ==
    LET open  == SkipWhile(s, p, WsChars)
        close == IndexOfFrom(s, ")", open + 1)
    IN  IF At(s, open) = "(" /\ close >= 0 /\ close <= DotStarEnd(s, open + 1)
        THEN [found |-> TRUE, name |-> name,
              params |-> Slice(s, open + 1, close)]
        ELSE NoMatch

\* \s*=\s*function\s*\((.*?)\) at p
AssignTail(s, p, name) ==
    LET eq == SkipWhile(s, p, WsChars)
        fn == SkipWhile(s, eq + 1, WsChars)
    IN  IF At(s, eq) = "=" /\ StartsWithAt(s, "function", fn)
        THEN ParenTail(s, fn + 8, name)
        ELSE NoMatch

\* the end of [a-zA-Z_][a-zA-Z0-9_\.]* at p, -1 without a match
NameEnd(s, p) ==
    IF IsIdentStart(At(s, p)) THEN SkipWhile(s, p + 1, NameChars) ELSE -1

\* /^function\s+([a-zA-Z_][a-zA-Z0-9_\.]*)\s*\((.*?)\)/
MatchFunction(line) ==
    LET p == SkipWhile(line, 8, WsChars)
        e == NameEnd(line, p)
    IN  IF StartsWithAt(line, "function", 0) /\ p > 8 /\ e >= 0
        THEN ParenTail(line, e, Slice(line, p, e))
        ELSE NoMatch

\* /^([a-zA-Z_][a-zA-Z0-9_\.]*)\s*=\s*function\s*\((.*?)\)/
MatchAssigned(line) ==
    LET e == NameEnd(line, 0)
    IN  IF e >= 0 THEN AssignTail(line, e, Slice(line, 0, e)) ELSE NoMatch

\* /^local\s+function\s+([a-zA-Z_][a-zA-Z0-9_\.]*)\s*\((.*?)\)/
MatchLocalFunction(line) ==
    LET f == SkipWhile(line, 5, WsChars)
        p == SkipWhile(line, f + 8, WsChars)
        e == NameEnd(line, p)
    IN  IF /\ StartsWithAt(line, "local", 0) /\ f > 5
           /\ StartsWithAt(line, "function", f) /\ p > f + 8 /\ e >= 0
        THEN ParenTail(line, e, Slice(line, p, e))
        ELSE NoMatch

\* /^exports\.(.*?)\s*=\s*function\s*\((.*?)\)/: the shortest name that
\* lets the rest match
MatchExports(line) ==
    LET ends == {e \in 8..DotStarEnd(line, 8) :
                    AssignTail(line, e, "").found}
    IN  IF StartsWithAt(line, "exports.", 0) /\ ends # {}
        THEN LET e == CHOOSE x \in ends : \A y \in ends : x <= y
             IN  AssignTail(line, e, Slice(line, 8, e))
        ELSE NoMatch

\* /^lib\.([a-zA-Z_][a-zA-Z0-9_\.]*)\s*=\s*function\s*\((.*?)\)/
MatchLib(line) ==
    LET e == NameEnd(line, 4)
    IN  IF StartsWithAt(line, "lib.", 0) /\ e >= 0
        THEN AssignTail(line, e, Slice(line, 4, e))
        ELSE NoMatch

\* functionMatches
functionMatches(line) ==
    <<MatchFunction(line), MatchAssigned(line), MatchLocalFunction(line),
      MatchExports(line), MatchLib(line)>>

\* /@param\s+(\w+)\s+(\w+)\s*(.*)/ tried at offset at
ParamMatchAt(line, at) ==
    LET n0 == SkipWhile(line, at + 6, WsChars)
        n1 == SkipWhile(line, n0, WordChars)
        t0 == SkipWhile(line, n1, WsChars)
        t1 == SkipWhile(line, t0, WordChars)
        d0 == SkipWhile(line, t1, WsChars)
    IN  [found |-> /\ StartsWithAt(line, "@param", at)
                   /\ n0 > at + 6 /\ n1 > n0 /\ t0 > n1 /\ t1 > t0,
         name |-> Slice(line, n0, n1),
         type |-> Slice(line, t0, t1),
         description |-> Trim(Slice(line, d0, DotStarEnd(line, d0)))]

\* /@return\s+(\w+)\s*(.*)/ tried at offset at
ReturnMatchAt(line, at) ==
    LET t0 == SkipWhile(line, at + 7, WsChars)
        t1 == SkipWhile(line, t0, WordChars)
        d0 == SkipWhile(line, t1, WsChars)
    IN  [found |-> /\ StartsWithAt(line, "@return", at)
                   /\ t0 > at + 7 /\ t1 > t0,
         type |-> Slice(line, t0, t1),
         description |-> Trim(Slice(line, d0, DotStarEnd(line, d0)))]

\* the leftmost offset at which the expression matches, -1 for none
FirstParamMatch(line) ==
    LET ats == {at \in 0..Len(line) : ParamMatchAt(line, at).found}
    IN  IF ats = {} THEN -1 ELSE CHOOSE x \in ats : \A y \in ats : x <= y

FirstReturnMatch(line) ==
    LET ats == {at \in 0..Len(line) : ReturnMatchAt(line, at).found}
    IN  IF ats = {} THEN -1 ELSE CHOOSE x \in ats : \A y \in ats : x <= y

RECURSIVE extractParamAnnotations(_)
extractParamAnnotations(commentLines) ==
    IF commentLines = <<>> THEN <<>>
    ELSE LET line == Head(commentLines)
             at   == FirstParamMatch(line)
             m    == ParamMatchAt(line, at)
         IN  (IF at >= 0
              THEN <<[name |-> m.name, type |-> m.type,
                      description |-> m.description, optional |-> FALSE]>>
              ELSE <<>>) \o extractParamAnnotations(Tail(commentLines))

RECURSIVE extractReturns(_)
extractReturns(commentLines) ==
    IF commentLines = <<>> THEN <<>>
    ELSE LET line == Head(commentLines)
             at   == FirstReturnMatch(line)
             m    == ReturnMatchAt(line, at)
         IN  (IF at >= 0
              THEN <<[type |-> m.type, description |-> m.description]>>
              ELSE <<>>) \o extractReturns(Tail(commentLines))

\* a parameter that keeps the `?` in its name
ParameterKeepsMark(param, paramAnnotations) ==
    LET trimmed == Trim(param)
        hits    == {k \in 1..Len(paramAnnotations) :
                       paramAnnotations[k].name = trimmed}
    IN  IF hits = {}
        THEN [name |-> trimmed, optional |-> Includes(trimmed, "?"),
              type |-> "any"]
        ELSE LET annotation ==
                     paramAnnotations[CHOOSE k \in hits : \A m \in hits : k <= m]
             IN  [name |-> trimmed, optional |-> Includes(trimmed, "?"),
                  type |-> annotation.type,
                  description |-> annotation.description]

\* one parameter of the list: an unannotated one has no description
Parameter(param, paramAnnotations) ==
    LET trimmed  == Trim(param)
        optional == Includes(trimmed, "?")
        name     == Trim(RemoveFirst(trimmed, "?"))
        hits     == {k \in 1..Len(paramAnnotations) :
                        paramAnnotations[k].name = name}
    IN  IF hits = {}
        THEN [name |-> name, optional |-> optional, type |-> "any"]
        ELSE LET annotation ==
                     paramAnnotations[CHOOSE k \in hits : \A m \in hits : k <= m]
             IN  [name |-> name, optional |-> optional,
                  type |-> annotation.type,
                  description |-> annotation.description]

parseParameters(paramString, commentLines) ==
    IF Trim(paramString) = "" THEN <<>>
    ELSE LET paramAnnotations == extractParamAnnotations(commentLines)
             params == SplitOn(paramString, ",")
         IN  [k \in 1..Len(params) |-> Parameter(params[k], paramAnnotations)]

RECURSIVE JoinWith(_, _)
JoinWith(ls, sep) ==
    IF ls = <<>> THEN ""
    ELSE IF Len(ls) = 1 THEN ls[1]
    ELSE ls[1] \o sep \o JoinWith(Tail(ls), sep)

IsExampleLine(line) == Includes(toLowerCase(line), "example")

extractDescription(commentLines) ==
    LET descLines == SelectSeq(commentLines,
                         LAMBDA line : /\ ~StartsWithAt(line, "@", 0)
                                       /\ ~IsExampleLine(line)
                                       /\ Len(line) > 0)
        joined == Trim(JoinWith(descLines, " "))
    IN  IF joined = "" THEN "No description available" ELSE joined

RECURSIVE ExamplesFrom(_, _, _, _)
ExamplesFrom(commentLines, inExample, currentExample, examples) ==
    IF commentLines = <<>>
    THEN IF currentExample # "" THEN Append(examples, Trim(currentExample))
         ELSE examples
    ELSE LET line == Head(commentLines)
             rest == Tail(commentLines)
             flushed == IF currentExample # ""
                        THEN Append(examples, Trim(currentExample))
                        ELSE examples
         IN  IF IsExampleLine(line)
             THEN ExamplesFrom(rest, TRUE, "", flushed)
             ELSE IF inExample
             THEN IF StartsWithAt(line, "@", 0)
                  THEN ExamplesFrom(rest, FALSE, "", flushed)
                  ELSE ExamplesFrom(rest, TRUE, currentExample \o line \o "\n",
                                    examples)
             ELSE ExamplesFrom(rest, inExample, currentExample, examples)

extractExamples(commentLines) == ExamplesFrom(commentLines, FALSE, "", <<>>)

\* functions.set(key, value) on a Map kept in insertion order
MapSet(map, key, value) ==
    IF \E k \in 1..Len(map) : map[k].key = key
    THEN [k \in 1..Len(map) |->
             IF map[k].key = key THEN [key |-> key, value |-> value]
             ELSE map[k]]
    ELSE Append(map, [key |-> key, value |-> value])

MapHas(map, key) == \E k \in 1..Len(map) : map[k].key = key

MapGet(map, key) == map[CHOOSE k \in 1..Len(map) : map[k].key = key].value

\* the first match of functionMatches, as the for loop finds it
FirstMatch(matches) ==
    LET hits == {k \in 1..Len(matches) : matches[k].found}
    IN  IF hits = {} THEN NoMatch
        ELSE matches[CHOOSE k \in hits : \A m \in hits : k <= m]

ParseState0 == [functions |-> <<>>, inComment |-> FALSE, commentLines |-> <<>>]

\* `if (!inComment)`: a `function name(...)` line sets a bare entry
SimpleMatch(st, line, sourceName) ==
    LET simpleMatch == MatchFunction(line)
    IN  IF ~st.inComment /\ simpleMatch.found
        THEN [st EXCEPT !.functions =
                 MapSet(@, simpleMatch.name,
                        [name |-> simpleMatch.name,
                         source |-> sourceName,
                         parameters |-> parseParameters(simpleMatch.params, <<>>),
                         description |-> "Function from " \o sourceName])]
        ELSE st

\* one iteration of parseLuaTypes' loop over the lines
ParseLine(st, rawLine, sourceName) ==
    LET line == Trim(rawLine)
    IN  IF StartsWithAt(line, "---", 0)
        THEN [st EXCEPT
                 !.inComment = TRUE,
                 !.commentLines =
                     Append(IF st.inComment THEN @ ELSE <<>>,
                            Trim(Slice(line, 3, Len(line))))]
        ELSE LET matches == functionMatches(line)
                 match   == FirstMatch(matches)
                 found   == IF match.found
                            THEN [functions |->
                                     MapSet(st.functions, match.name,
                                        [name |-> match.name,
                                         source |-> sourceName,
                                         parameters |->
                                             parseParameters(match.params,
                                                             st.commentLines),
                                         description |->
                                             extractDescription(st.commentLines),
                                         examples |->
                                             extractExamples(st.commentLines),
                                         returns |->
                                             extractReturns(st.commentLines)]),
                                  inComment |-> FALSE,
                                  commentLines |-> <<>>]
                            ELSE st
                 simple  == SimpleMatch(found, line, sourceName)
             IN  IF simple.inComment /\ Len(line) > 0 /\ ~match.found
                 THEN [simple EXCEPT !.inComment = FALSE, !.commentLines = <<>>]
                 ELSE simple

RECURSIVE ParseLines(_, _, _)
ParseLines(st, lines, sourceName) ==
    IF lines = <<>> THEN st
    ELSE ParseLines(ParseLine(st, Head(lines), sourceName), Tail(lines),
                    sourceName)

parseLuaTypes(text0, sourceName) ==
    ParseLines(ParseState0, SplitOn(text0, "\n"), sourceName).functions

----------------------------------------------------------------------------
(* The documentation manager (documentation-manager.ts): the configured    *)
(* sources, the cache, the download semaphore and the operations that      *)
(* start downloads.  A download is downloadAndParseSource from its call to *)
(* the settling of its promise; what the server answers is the             *)
(* environment's choice.                                                   *)

maxConcurrentDownloads == 2

SourceNames == {"ox_lib", "natives", "extra"}

GoodUrl == "https://example.org/types.lua"
BadUrl  == "ftp://example.org/types.lua"

Source(name, url, enabled) ==
    [name |-> name, url |-> url, type |-> "lua_types", enabled |-> enabled]

\* the values of the setting documentationSources at activation
Configurations0 ==
    { <<>>,
      <<Source("ox_lib", GoodUrl, TRUE), Source("natives", GoodUrl, TRUE)>>,
      <<Source("ox_lib", GoodUrl, TRUE), Source("natives", BadUrl, TRUE)>>,
      <<Source("ox_lib", GoodUrl, TRUE), Source("natives", GoodUrl, FALSE)>> }

\* what a finished fetch hands back: a body, 304, or one of the failures
Bodies == {"v1", "v2"}

\* the parser's result for a body, and the validators a server has for it
FunctionsIn(body) == IF body = "v1" THEN {"F"} ELSE {"F", "G"}
ETagOf(body) == "etag-" \o body
LastModifiedOf(body) == "date-" \o body

\* a response: its kind, its body and its etag and last-modified headers
\* ("" when the header is missing)
Response(kind, body, etag, lastModified) ==
    [kind |-> kind, body |-> body, etag |-> etag,
     lastModified |-> lastModified]

NotModified == Response("notModified", "", "", "")

\* content.length of a body: "big" is one character over the limit of
\* downloadAndParseSource and "full" exactly at it
maxContentLength == 10 * 1024 * 1024

ContentLength(body) ==
    CASE body = "big"  -> maxContentLength + 1
      [] body = "full" -> maxContentLength
      [] OTHER         -> Len(body)

Failures ==
    {Response(k, "", "", "") :
        k \in {"networkError", "httpError", "parserException"}}
        \cup {Response("ok", "big", "", "")}

\* a server that sends an etag with every body
Responses ==
    {Response("ok", b, ETagOf(b), "") : b \in Bodies}
        \cup {NotModified} \cup Failures

\* servers that send any of the two validators, or none
ConditionalResponses ==
    {Response("ok", b, e, m) :
        b \in Bodies, e \in {"", "etag-v1", "etag-v2"},
        m \in {"", "date-v1", "date-v2"}}
        \cup {NotModified, Response("networkError", "", "", "")}

\* new Date(): the times of the clock
DocsTimes == {1}
ConditionalTimes == {1, 2}

isValidUrl(url) ==
    StartsWithAt(url, "https:", 0) \/ StartsWithAt(url, "http:", 0)

\* this.cache, a Map in insertion order: get and set
NoEntry ==
    [source |-> "", functions |-> {}, lastUpdate |-> 0, etag |-> "",
     lastModified |-> ""]

CacheGet(cch, name) ==
    IF \E k \in 1..Len(cch) : cch[k].source = name
    THEN cch[CHOOSE k \in 1..Len(cch) : cch[k].source = name]
    ELSE NoEntry

\* a set that deletes the key first, as if the entry were inserted anew
CacheSetAtEnd(cch, entry) ==
    Append(SelectSeq(cch, LAMBDA e : e.source # entry.source), entry)

CacheSet(cch, entry) ==
    IF \E k \in 1..Len(cch) : cch[k].source = entry.source
    THEN [k \in 1..Len(cch) |->
             IF cch[k].source = entry.source THEN entry ELSE cch[k]]
    ELSE Append(cch, entry)

\* the outcome of downloadAndParseSource: the cache it leaves, whether its
\* promise rejects, whether the parser ran, and whether it reported the
\* source as not modified
Outcome(cch, threw, parsed, notModified) ==
    [cache |-> cch, threw |-> threw, parsed |-> parsed,
     notModified |-> notModified]

\* the entry cache.set stores for a parsed response
ParsedEntry(source, response, now) ==
    [source       |-> source.name,
     functions    |-> FunctionsIn(response.body),
     lastUpdate   |-> now,
     etag         |-> response.etag,
     lastModified |-> response.lastModified]

\* a downloadAndParseSource whose catch block is missing: the failure leaves
\* the function as a rejection
downloadWithoutCatch(cch, source, response, now) ==
    IF ~isValidUrl(source.url)
    THEN Outcome(cch, TRUE, FALSE, FALSE)
    ELSE IF \/ response.kind \in {"networkError", "httpError"}
            \/ ContentLength(response.body) > maxContentLength
    THEN Outcome(cch, TRUE, FALSE, FALSE)
    ELSE IF response.kind = "parserException"
    THEN Outcome(cch, TRUE, TRUE, FALSE)
    ELSE IF response.kind = "notModified"
    THEN Outcome(cch, FALSE, FALSE, TRUE)
    ELSE Outcome(CacheSet(cch, ParsedEntry(source, response, now)),
                 FALSE, TRUE, FALSE)

\* a downloadAndParseSource that stamps the entry on 304 as well
downloadTouchesOnNotModified(cch, source, response, now) ==
    IF ~isValidUrl(source.url)
       \/ response.kind \in {"networkError", "httpError"}
       \/ ContentLength(response.body) > maxContentLength
    THEN Outcome(cch, FALSE, FALSE, FALSE)
    ELSE IF response.kind = "parserException"
    THEN Outcome(cch, FALSE, TRUE, FALSE)
    ELSE IF response.kind = "notModified"
    THEN Outcome([k \in 1..Len(cch) |->
                     IF cch[k].source = source.name
                     THEN [cch[k] EXCEPT !.lastUpdate = now] ELSE cch[k]],
                 FALSE, FALSE, TRUE)
    ELSE Outcome(CacheSet(cch, ParsedEntry(source, response, now)),
                 FALSE, TRUE, FALSE)

\* a downloadAndParseSource without the test of content.length
downloadAnyLength(cch, source, response, now) ==
    IF ~isValidUrl(source.url)
       \/ response.kind \in {"networkError", "httpError"}
    THEN Outcome(cch, FALSE, FALSE, FALSE)
    ELSE IF response.kind = "notModified"
    THEN Outcome(cch, FALSE, FALSE, TRUE)
    ELSE IF response.kind = "parserException"
    THEN Outcome(cch, FALSE, TRUE, FALSE)
    ELSE Outcome(CacheSet(cch, ParsedEntry(source, response, now)),
                 FALSE, TRUE, FALSE)

\* downloadAndParseSource, given the answer of fetchWithRetries and the
\* time: every failure is caught, a 304 returns before the parser
downloadAndParseSource(cch, source, response, now) ==
    IF ~isValidUrl(source.url)
    THEN Outcome(cch, FALSE, FALSE, FALSE)
    ELSE IF response.kind = "networkError"
    THEN Outcome(cch, FALSE, FALSE, FALSE)
    ELSE IF response.kind = "notModified"
    THEN Outcome(cch, FALSE, FALSE, TRUE)
    ELSE IF \/ response.kind = "httpError"
            \/ ContentLength(response.body) > maxContentLength
    THEN Outcome(cch, FALSE, FALSE, FALSE)
    ELSE IF response.kind = "parserException"
    THEN Outcome(cch, FALSE, TRUE, FALSE)
    ELSE Outcome(CacheSet(cch, ParsedEntry(source, response, now)),
                 FALSE, TRUE, FALSE)

\* the download begun for source by refresh call rid (0: the add command),
\* with the If-None-Match and If-Modified-Since headers it sends ("" when
\* the header is not sent), and whether processQueue began it
Download(rid, source, cch, queued) ==
    [refresh |-> rid, source |-> source,
     sent  |-> CacheGet(cch, source.name).etag,
     since |-> CacheGet(cch, source.name).lastModified,
     queued |-> queued]

\* a task: the download of a source for a refresh call
Task(rid, source) == [refresh |-> rid, source |-> source]

\* the semaphore's state: activeDownloads, downloadQueue, and the downloads
\* in flight
Semaphore(active, queue, running) ==
    [active |-> active, queue |-> queue, running |-> running]

\* runWithSemaphore for one task
runWithSemaphore(sem, rid, source, cch) ==
    IF sem.active < maxConcurrentDownloads
    THEN [sem EXCEPT !.active = @ + 1,
                     !.running = @ \cup {Download(rid, source, cch, FALSE)}]
    ELSE [sem EXCEPT !.queue = Append(@, Task(rid, source))]

\* enabledSources.map(source => this.runWithSemaphore(...))
RECURSIVE RunAll(_, _, _, _)
RunAll(sem, rid, sources, cch) ==
    IF sources = <<>> THEN sem
    ELSE RunAll(runWithSemaphore(sem, rid, Head(sources), cch),
                rid, Tail(sources), cch)

\* a processQueue that takes the task queued last
processQueueFromEnd(sem, cch) ==
    IF sem.active >= maxConcurrentDownloads THEN sem
    ELSE IF sem.queue = <<>> THEN sem
    ELSE LET next == sem.queue[Len(sem.queue)]
         IN  [active  |-> sem.active + 1,
              queue   |-> SubSeq(sem.queue, 1, Len(sem.queue) - 1),
              running |-> sem.running
                            \cup {Download(next.refresh, next.source, cch,
                                           TRUE)}]

\* a finally block that frees the slot and starts no queued task
releaseWithoutNext(sem, cch) == sem

processQueue(sem, cch) ==
    IF sem.active >= maxConcurrentDownloads THEN sem
    ELSE IF sem.queue = <<>> THEN sem
    ELSE LET next == Head(sem.queue)
         IN  [active  |-> sem.active + 1,
              queue   |-> Tail(sem.queue),
              running |-> sem.running
                            \cup {Download(next.refresh, next.source, cch,
                                           TRUE)}]

\* the function names the parsed bodies and the local file declare, in the
\* order of their declaration
FunctionNames == {"F", "G", "L"}
FunctionOrder == <<"F", "G", "L">>

\* the FunctionDoc of a function of a source
FunctionDoc(name, source) == [name |-> name, source |-> source]

Undefined == [name |-> "", source |-> "undefined"]

\* entry.functions.values()
FunctionsOf(entry) ==
    LET names == SelectSeq(FunctionOrder, LAMBDA f : f \in entry.functions)
    IN  [k \in 1..Len(names) |-> FunctionDoc(names[k], entry.source)]

RECURSIVE getFunctionDocumentation(_, _)
\* the loop over this.cache: the first entry that has the name wins
getFunctionDocumentation(cch, functionName) ==
    IF cch = <<>> THEN Undefined
    ELSE IF functionName \in Head(cch).functions
    THEN FunctionDoc(functionName, Head(cch).source)
    ELSE getFunctionDocumentation(Tail(cch), functionName)

RECURSIVE getAllFunctions(_)
getAllFunctions(cch) ==
    IF cch = <<>> THEN <<>>
    ELSE FunctionsOf(Head(cch)) \o getAllFunctions(Tail(cch))

\* the workspace's types.lua, as loadLocalTypesFiles caches it
LocalTypesEntry(now) ==
    [source |-> "Local: types.lua", functions |-> {"L"}, lastUpdate |-> now,
     etag |-> "", lastModified |-> ""]

loadLocalTypesFiles(cch, now) == CacheSet(cch, LocalTypesEntry(now))

----------------------------------------------------------------------------
(* Persistence: saveCacheToFile and loadCachedDocumentation.  The file     *)
(* documentation.json is modelled by the JSON value it holds: an object is *)
(* the sequence of its properties <<key, value>> in property order, an     *)
(* undefined property is left out, and a Date is the string toISOString    *)
(* gives.  Instants are milliseconds of the first day after the epoch.     *)

DecimalDigits == "0123456789"

TwoDigits(n) == At(DecimalDigits, n \div 10) \o At(DecimalDigits, n % 10)

ThreeDigits(n) == At(DecimalDigits, n \div 100) \o TwoDigits(n % 100)

\* a toISOString that writes whole seconds only
toISOStringSeconds(t) ==
    "1970-01-01T" \o TwoDigits((t \div 3600000) % 24) \o ":"
        \o TwoDigits((t \div 60000) % 60) \o ":"
        \o TwoDigits((t \div 1000) % 60) \o ".000Z"

\* Date.prototype.toISOString
toISOString(t) ==
    "1970-01-01T" \o TwoDigits((t \div 3600000) % 24) \o ":"
        \o TwoDigits((t \div 60000) % 60) \o ":"
        \o TwoDigits((t \div 1000) % 60) \o "."
        \o ThreeDigits(t % 1000) \o "Z"

RECURSIVE NumberAt(_, _, _)
\* the decimal number written in s[from .. from + width - 1], -1 if a
\* character there is not a digit
NumberAt(s, from, width) ==
    IF width = 0 THEN 0
    ELSE LET c    == At(s, from + width - 1)
             rest == NumberAt(s, from, width - 1)
         IN  IF c = "" \/ ~Includes(DecimalDigits, c) \/ rest < 0 THEN -1
             ELSE 10 * rest + IndexOf(DecimalDigits, c)

\* new Date(string) for the date-time format; -1 is the Invalid Date
DateOf(s) ==
    LET h  == NumberAt(s, 11, 2)
        m  == NumberAt(s, 14, 2)
        sc == NumberAt(s, 17, 2)
        ms == NumberAt(s, 20, 3)
    IN  IF /\ Len(s) = 24
           /\ Slice(s, 0, 11) = "1970-01-01T"
           /\ At(s, 13) = ":" /\ At(s, 16) = ":" /\ At(s, 19) = "."
           /\ At(s, 23) = "Z"
           /\ h >= 0 /\ h < 24 /\ m >= 0 /\ m < 60 /\ sc >= 0 /\ sc < 60
           /\ ms >= 0
        THEN ((h * 60 + m) * 60 + sc) * 1000 + ms
        ELSE -1

\* a property key that is an array index: a canonical numeric string
IsArrayIndex(key) ==
    /\ key # ""
    /\ NumberAt(key, 0, Len(key)) >= 0
    /\ (At(key, 0) = "0" => key = "0")

\* obj[key] = value on an ordinary object: an existing property keeps its
\* place, a new array index goes among the indices in ascending order, any
\* other new key goes last
DefineProperty(obj, key, value) ==
    IF \E k \in 1..Len(obj) : obj[k][1] = key
    THEN [k \in 1..Len(obj) |->
             IF obj[k][1] = key THEN <<key, value>> ELSE obj[k]]
    ELSE IF IsArrayIndex(key)
    THEN LET before == SelectSeq(obj, LAMBDA p :
                           /\ IsArrayIndex(p[1])
                           /\ NumberAt(p[1], 0, Len(p[1]))
                                 < NumberAt(key, 0, Len(key)))
         IN  before \o <<<<key, value>>>>
                 \o SubSeq(obj, Len(before) + 1, Len(obj))
    ELSE Append(obj, <<key, value>>)

RECURSIVE ObjectFromEntries(_)
\* Object.fromEntries(entries), entries a sequence of <<key, value>>
ObjectFromEntries(entries) ==
    IF entries = <<>> THEN <<>>
    ELSE LET n == Len(entries)
         IN  DefineProperty(ObjectFromEntries(SubSeq(entries, 1, n - 1)),
                            entries[n][1], entries[n][2])

\* Object.fromEntries(value.functions)
FunctionsObject(entry) ==
    LET docs == FunctionsOf(entry)
    IN  ObjectFromEntries([k \in 1..Len(docs) |-> <<docs[k].name, docs[k]>>])

\* what JSON.stringify keeps of the object saveCacheToFile builds for an
\* entry: etag and lastModified are written when they are defined
CacheData(entry) ==
    LET fields == {"functions", "lastUpdate", "source"}
                      \cup (IF entry.etag # "" THEN {"etag"} ELSE {})
                      \cup (IF entry.lastModified # ""
                            THEN {"lastModified"} ELSE {})
    IN  [f \in fields |->
            CASE f = "functions"    -> FunctionsObject(entry)
              [] f = "lastUpdate"   -> toISOString(entry.lastUpdate)
              [] f = "source"       -> entry.source
              [] f = "etag"         -> entry.etag
              [] f = "lastModified" -> entry.lastModified]

\* documentation.json: whether it exists, and the value it holds
NoFile == [exists |-> FALSE, data |-> <<>>]

\* saveCacheToFile(): the file it writes
saveCacheToFile(cch) ==
    [exists |-> TRUE,
     data   |-> ObjectFromEntries(
                    [k \in 1..Len(cch) |->
                        <<cch[k].source, CacheData(cch[k])>>])]

\* the entry loadCachedDocumentation sets for a property of the file; the
\* Map's key is the property's key
LoadedEntry(sourceName, data) ==
    [source       |-> sourceName,
     functions    |-> {data.functions[k][1] : k \in 1..Len(data.functions)},
     lastUpdate   |-> DateOf(data.lastUpdate),
     etag         |-> IF "etag" \in DOMAIN data THEN data.etag ELSE "",
     lastModified |-> IF "lastModified" \in DOMAIN data
                      THEN data.lastModified ELSE ""]

RECURSIVE LoadEntries(_, _)
LoadEntries(cch, properties) ==
    IF properties = <<>> THEN cch
    ELSE LoadEntries(CacheSet(cch, LoadedEntry(Head(properties)[1],
                                               Head(properties)[2])),
                     Tail(properties))

\* loadCachedDocumentation() in a manager whose cache is cch
loadCachedDocumentation(cch, file) ==
    IF file.exists THEN LoadEntries(cch, file.data) ELSE cch


\* a refreshDocumentation call: how far it is, the names of its
\* enabledSources, those whose download has not settled, and those its
\* progress reported as up to date
IdleRefresh ==
    [state |-> "idle", enabledSources |-> {}, waiting |-> {}, upToDate |-> {}]

DocsIdle ==
    /\ FetchIdle
    /\ documentationSources = <<>>
    /\ cache = <<>>
    /\ cacheFile = NoFile
    /\ activeDownloads = 0
    /\ downloadQueue = <<>>
    /\ downloads = {}
    /\ refreshes = [rid \in 1..MaxRefreshes |-> IdleRefresh]
    /\ stored = [name \in SourceNames |-> ""]
    /\ managerPc = "idle"

LexIdle ==
    /\ text = ""
    /\ context = NoContext
    /\ resanitized = NotRun
    /\ config = Settings
    /\ diagnostics = <<>>
    /\ lexPc = "idle"

\* the sources and the downloads the model's inputs can give rise to
AllSources ==
    UNION {{cfg[k] : k \in 1..Len(cfg)} : cfg \in Configurations0}
        \cup {Source("extra", url, TRUE) : url \in {GoodUrl, BadUrl}}

AllDownloads ==
    [refresh : 0..MaxRefreshes, source : AllSources,
     sent : {""} \cup {ETagOf(b) : b \in Bodies},
     since : {""},
     queued : BOOLEAN]

\* the downloads of one source whose servers send either validator
ConditionalDownloads ==
    [refresh : 1..MaxRefreshes, source : {Source("ox_lib", GoodUrl, TRUE)},
     sent : {""} \cup {ETagOf(b) : b \in Bodies},
     since : {""} \cup {LastModifiedOf(b) : b \in Bodies},
     queued : BOOLEAN]

----------------------------------------------------------------------------
(* The scan orchestrator: the documents, the debounce timers and the       *)
(* handlers activate() registers.  A timer is [id, uri]; the runtime fires *)
(* an armed timer once, at some later time, unless clearTimeout removed it *)
(* first.                                                                  *)

Uris == {"a.lua", "b.lua", "notes.txt"}

\* document.languageId
languageId(uri) == IF uri = "notes.txt" THEN "plaintext" ELSE "lua"

LuaUris == {u \in Uris : languageId(u) = "lua"}

\* the texts an edit can leave in a document
EditTexts == {"while true do\nend", "t = \"while true do\""}

\* diagnosticCollection's value for a uri: no entry, or the entry set(uri, ds)
NotPublished == [published |-> FALSE, items |-> <<>>]

Published(ds) == [published |-> TRUE, items |-> ds]

TimerIds == 1..(Cardinality(Uris) * MaxBurst)

\* the id setTimeout returns: one no armed timer has
FreshTimer(armed) ==
    CHOOSE id \in TimerIds :
        /\ id \notin {t.id : t \in armed}
        /\ \A other \in TimerIds :
              other \notin {t.id : t \in armed} => id <= other

\* the part of the state schedule and cancel work on
Timers(map, armed) == [map |-> map, armed |-> armed]

\* a cancel that drops the map entry and forgets clearTimeout
cancelWithoutClear(tm, uri) ==
    IF tm.map[uri] # 0
    THEN [tm EXCEPT !.map[uri] = 0]
    ELSE tm

\* a cancel for a scheduler that keeps one timer for all documents
cancelEveryScan(tm, uri) ==
    [map |-> [u \in DOMAIN tm.map |-> 0], armed |-> {}]

cancelScheduledScan(tm, uri) ==
    IF tm.map[uri] # 0
    THEN [map   |-> [tm.map EXCEPT ![uri] = 0],
          armed |-> {t \in tm.armed : t.id # tm.map[uri]}]
    ELSE tm

scheduleDocumentScan(tm, uri) ==
    LET c     == cancelScheduledScan(tm, uri)
        timer == FreshTimer(c.armed)
    IN  [map   |-> [c.map EXCEPT ![uri] = timer],
         armed |-> c.armed \cup {[id |-> timer, uri |-> uri]}]

ArmedFor(uri) == {t \in armedTimers : t.uri = uri}

\* the bookkeeping of a scan trigger for uri: a trigger that finds no timer
\* armed for uri begins a burst
Triggered(uri) ==
    /\ burst' = [burst EXCEPT ![uri] = IF ArmedFor(uri) = {} THEN 1 ELSE @ + 1]
    /\ burstScans' = [burstScans EXCEPT
                         ![uri] = IF ArmedFor(uri) = {} THEN 0 ELSE @]
    /\ quiet' = [quiet EXCEPT ![uri] = FALSE]

BurstRoom(uri) == ArmedFor(uri) = {} \/ burst[uri] < MaxBurst

SchedIdle ==
    /\ isOpen = [u \in Uris |-> FALSE]
    /\ docText = [u \in Uris |-> "while true do\nend"]
    /\ documentScanTimers = [u \in Uris |-> 0]
    /\ armedTimers = {}
    /\ diagnosticCollection = [u \in Uris |-> NotPublished]
    /\ wsPending = {}
    /\ burst = [u \in Uris |-> 0]
    /\ burstScans = [u \in Uris |-> 0]
    /\ quiet = [u \in Uris |-> FALSE]

\* the settings the scheduler is run under
SchedSettings == {"enableWhileLoopCheck", "enableGlobalCheck"}

\* activate(): no document is open yet, nothing is scheduled or published
SchedInit ==
    /\ SchedIdle
    /\ DocsIdle
    /\ ParseIdle
    /\ text = ""
    /\ context = NoContext
    /\ resanitized = NotRun
    /\ config = SchedSettings
    /\ diagnostics = <<>>
    /\ lexPc = "idle"

\* onDidOpenTextDocument
DidOpen(uri) ==
    /\ UNCHANGED exceptSched
    /\ ~isOpen[uri]
    /\ isOpen' = [isOpen EXCEPT ![uri] = TRUE]
    /\ IF languageId(uri) = "lua"
       THEN /\ BurstRoom(uri)
            /\ LET tm == scheduleDocumentScan(
                             Timers(documentScanTimers, armedTimers), uri)
               IN  /\ documentScanTimers' = tm.map
                   /\ armedTimers' = tm.armed
            /\ Triggered(uri)
       ELSE UNCHANGED <<documentScanTimers, armedTimers, burst, burstScans,
                        quiet>>
    /\ UNCHANGED <<docText, diagnosticCollection, wsPending>>

\* onDidChangeTextDocument, the edit included
DidChange(uri, newText) ==
    /\ UNCHANGED exceptSched
    /\ isOpen[uri]
    /\ docText' = [docText EXCEPT ![uri] = newText]
    /\ IF languageId(uri) = "lua"
       THEN /\ BurstRoom(uri)
            /\ LET tm == scheduleDocumentScan(
                             Timers(documentScanTimers, armedTimers), uri)
               IN  /\ documentScanTimers' = tm.map
                   /\ armedTimers' = tm.armed
            /\ Triggered(uri)
       ELSE UNCHANGED <<documentScanTimers, armedTimers, burst, burstScans,
                        quiet>>
    /\ UNCHANGED <<isOpen, diagnosticCollection, wsPending>>

\* a close handler that deletes the diagnostics and leaves the timer alone
DidCloseWithoutCancel(uri) ==
    /\ UNCHANGED exceptSched
    /\ isOpen[uri]
    /\ isOpen' = [isOpen EXCEPT ![uri] = FALSE]
    /\ IF languageId(uri) = "lua"
       THEN /\ diagnosticCollection' =
                   [diagnosticCollection EXCEPT ![uri] = NotPublished]
            /\ burst' = [burst EXCEPT ![uri] = 0]
            /\ burstScans' = [burstScans EXCEPT ![uri] = 0]
            /\ quiet' = [quiet EXCEPT ![uri] = TRUE]
       ELSE UNCHANGED <<diagnosticCollection, burst, burstScans, quiet>>
    /\ UNCHANGED <<docText, wsPending, documentScanTimers, armedTimers>>

\* onDidCloseTextDocument
DidClose(uri) ==
    /\ UNCHANGED exceptSched
    /\ isOpen[uri]
    /\ isOpen' = [isOpen EXCEPT ![uri] = FALSE]
    /\ IF languageId(uri) = "lua"
       THEN /\ LET tm == cancelScheduledScan(
                             Timers(documentScanTimers, armedTimers), uri)
               IN  /\ documentScanTimers' = tm.map
                   /\ armedTimers' = tm.armed
            /\ diagnosticCollection' =
                   [diagnosticCollection EXCEPT ![uri] = NotPublished]
            /\ burst' = [burst EXCEPT ![uri] = 0]
            /\ burstScans' = [burstScans EXCEPT ![uri] = 0]
            /\ quiet' = [quiet EXCEPT ![uri] = TRUE]
       ELSE UNCHANGED <<documentScanTimers, armedTimers, diagnosticCollection,
                        burst, burstScans, quiet>>
    /\ UNCHANGED <<docText, wsPending>>

\* a timer callback that scans and leaves its entry in documentScanTimers
TimerFiresKeepsEntry(timer) ==
    /\ UNCHANGED exceptSched
    /\ timer \in armedTimers
    /\ armedTimers' = armedTimers \ {timer}
    /\ burstScans' = [burstScans EXCEPT ![timer.uri] = @ + 1]
    /\ UNCHANGED <<isOpen, docText, wsPending, burst, quiet, documentScanTimers>>
    /\ diagnosticCollection' =
           [diagnosticCollection EXCEPT
               ![timer.uri] = Published(scanDocument(docText[timer.uri], config))]

\* the callback scheduleDocumentScan hands to setTimeout
TimerFires(timer) ==
    /\ UNCHANGED exceptSched
    /\ timer \in armedTimers
    /\ armedTimers' = armedTimers \ {timer}
    /\ documentScanTimers' = [documentScanTimers EXCEPT ![timer.uri] = 0]
    /\ burstScans' = [burstScans EXCEPT ![timer.uri] = @ + 1]
    /\ UNCHANGED <<isOpen, docText, wsPending, burst, quiet>>
    /\ diagnosticCollection' =
           [diagnosticCollection EXCEPT
               ![timer.uri] = Published(scanDocument(docText[timer.uri], config))]

\* the command jericofxLuaTools.scanCurrentFile, uri the active editor's
ScanCurrentFile(uri) ==
    /\ UNCHANGED exceptSched
    /\ isOpen[uri]
    /\ languageId(uri) = "lua"
    /\ quiet' = [quiet EXCEPT ![uri] = FALSE]
    /\ UNCHANGED <<isOpen, docText, documentScanTimers, armedTimers,
                   wsPending, burst, burstScans>>
    /\ diagnosticCollection' =
           [diagnosticCollection EXCEPT
               ![uri] = Published(scanDocument(docText[uri], config))]

\* the command jericofxLuaTools.scanWorkspace: findFiles('**/*.lua')
ScanWorkspace ==
    /\ UNCHANGED exceptSched
    /\ wsPending = {}
    /\ wsPending' = LuaUris
    /\ UNCHANGED <<isOpen, docText, documentScanTimers, armedTimers,
                   diagnosticCollection, burst, burstScans, quiet>>

\* openTextDocument(file) resolved: scheduleDocumentScan(doc)
WorkspaceFileOpened(uri) ==
    /\ UNCHANGED exceptSched
    /\ uri \in wsPending
    /\ BurstRoom(uri)
    /\ wsPending' = wsPending \ {uri}
    /\ LET tm == scheduleDocumentScan(
                     Timers(documentScanTimers, armedTimers), uri)
       IN  /\ documentScanTimers' = tm.map
           /\ armedTimers' = tm.armed
    /\ Triggered(uri)
    /\ UNCHANGED <<isOpen, docText, diagnosticCollection>>

\* a workspace scan whose first failure ends the batch
WorkspaceFileFailedAborts(uri) ==
    /\ UNCHANGED exceptSched
    /\ uri \in wsPending
    /\ wsPending' = {}
    /\ UNCHANGED <<isOpen, docText, documentScanTimers, armedTimers,
                   diagnosticCollection, burst, burstScans, quiet>>

\* openTextDocument(file) rejected: the error is logged
WorkspaceFileFailed(uri) ==
    /\ UNCHANGED exceptSched
    /\ uri \in wsPending
    /\ wsPending' = wsPending \ {uri}
    /\ UNCHANGED <<isOpen, docText, documentScanTimers, armedTimers,
                   diagnosticCollection, burst, burstScans, quiet>>

SchedNext ==
    \/ \E uri \in Uris : DidOpen(uri)
    \/ \E uri \in Uris : \E newText \in EditTexts : DidChange(uri, newText)
    \/ \E uri \in Uris : DidClose(uri)
    \/ \E timer \in [id : TimerIds, uri : Uris] : TimerFires(timer)
    \/ \E uri \in Uris : ScanCurrentFile(uri)
    \/ ScanWorkspace
    \/ \E uri \in Uris : WorkspaceFileOpened(uri)
    \/ \E uri \in Uris : WorkspaceFileFailed(uri)

SpecSched == SchedInit /\ [][SchedNext]_vars

----------------------------------------------------------------------------
(* DocumentationParser.parseNatives.  A JSON value is a record of its type *)
(* and what it holds; an object's properties are the sequence of their     *)
(* <<key, value>>, a missing property reads as undefined.  JSON.parse is   *)
(* taken by its contract: a text that is not JSON makes it throw, any      *)
(* other text gives the value the text denotes.                            *)

JsUndefined == [type |-> "undefined"]
JsNull      == [type |-> "null"]
JsNumber(n) == [type |-> "number", value |-> n]
JsString(s) == [type |-> "string", value |-> s]
JsBoolean(b) == [type |-> "boolean", value |-> b]
JsArray(items) == [type |-> "array", items |-> items]
JsObject(props) == [type |-> "object", props |-> props]

\* typeof v
typeof(v) ==
    IF v.type \in {"object", "array", "null"} THEN "object" ELSE v.type

\* ToBoolean(v), as `!v`, `v && ...` and `v || ...` apply it
Truthy(v) ==
    CASE v.type \in {"undefined", "null"} -> FALSE
      [] v.type = "number"  -> v.value # 0
      [] v.type = "string"  -> v.value # ""
      [] v.type = "boolean" -> v.value
      [] OTHER -> TRUE

\* v[key] for the keys parseNatives reads; an array has none of them
Property(v, key) ==
    IF v.type = "object" /\ \E k \in 1..Len(v.props) : v.props[k][1] = key
    THEN v.props[CHOOSE k \in 1..Len(v.props) : v.props[k][1] = key][2]
    ELSE JsUndefined

\* v || other
OrElse(v, other) == IF Truthy(v) THEN v ELSE other

\* Object.entries(v) of an object or an array of fewer than ten items
ObjectEntries(v) ==
    IF v.type = "array"
    THEN [k \in 1..Len(v.items) |-> <<At(DecimalDigits, k - 1), v.items[k]>>]
    ELSE IF v.type = "object" THEN v.props
    ELSE <<>>

\* the string a template literal or += makes of a string or of a one-digit
\* number
ToText(v) ==
    CASE v.type = "string" -> v.value
      [] v.type = "number" -> At(DecimalDigits, v.value)

\* the items of native.parameters that are pushed
NativeParameters(native) ==
    LET parameters == Property(native, "parameters")
        kept == IF Truthy(parameters) /\ parameters.type = "array"
                THEN SelectSeq(parameters.items,
                               LAMBDA param :
                                   Truthy(param) /\ typeof(param) = "object")
                ELSE <<>>
    IN  [k \in 1..Len(kept) |->
            [name        |-> OrElse(Property(kept[k], "name"),
                                    JsString("unknown")),
             type        |-> OrElse(Property(kept[k], "type"), JsString("any")),
             description |-> OrElse(Property(kept[k], "description"),
                                    JsString("")),
             optional    |-> OrElse(Property(kept[k], "optional"),
                                    JsBoolean(FALSE))]]

ReturnDoc(ret) ==
    [type        |-> OrElse(Property(ret, "type"), JsString("void")),
     description |-> OrElse(Property(ret, "description"), JsString(""))]

\* the items of native.returns that are pushed, or native.returns itself
NativeReturns(native) ==
    LET returns == Property(native, "returns")
    IN  IF ~Truthy(returns) THEN <<>>
        ELSE IF returns.type = "array"
        THEN LET kept == SelectSeq(returns.items,
                                   LAMBDA ret :
                                       Truthy(ret) /\ typeof(ret) = "object")
             IN  [k \in 1..Len(kept) |-> ReturnDoc(kept[k])]
        ELSE IF typeof(returns) = "object" THEN <<ReturnDoc(returns)>>
        ELSE <<>>

\* const func: FunctionDoc = {...} and the side suffix
NativeDoc(functionName, native, sourceName) ==
    LET description ==
            OrElse(Property(native, "description"),
                   JsString("Native function from " \o sourceName))
        side == Property(native, "side")
    IN  [name        |-> OrElse(Property(native, "name"),
                                JsString(functionName)),
         source      |-> sourceName,
         description |-> IF Truthy(side)
                         THEN JsString(ToText(description) \o " (Side: "
                                           \o ToText(side) \o ")")
                         ELSE description,
         parameters  |-> NativeParameters(native),
         returns     |-> NativeReturns(native),
         examples    |-> OrElse(Property(native, "examples"), JsArray(<<>>))]

RECURSIVE NativesFrom(_, _, _)
\* the loop over Object.entries(nativesData)
NativesFrom(entries, sourceName, fns) ==
    IF entries = <<>> THEN fns
    ELSE LET functionName == Head(entries)[1]
             native       == Head(entries)[2]
         IN  IF ~Truthy(native) \/ typeof(native) # "object"
             THEN NativesFrom(Tail(entries), sourceName, fns)
             ELSE NativesFrom(Tail(entries), sourceName,
                              MapSet(fns, functionName,
                                     NativeDoc(functionName, native,
                                               sourceName)))

\* content: whether it is JSON, and the value it denotes
NotJson == [valid |-> FALSE, root |-> JsUndefined]
Json(root) == [valid |-> TRUE, root |-> root]

parseNatives(json, sourceName) ==
    IF ~json.valid THEN <<>>
    ELSE IF typeof(json.root) # "object" \/ json.root.type = "null" THEN <<>>
    ELSE NativesFrom(ObjectEntries(json.root), sourceName, <<>>)

----------------------------------------------------------------------------
(* The documentation manager's operations                                  *)

\* new DocumentationManager(context), no cache file on disk
ManagerInit(configurations) ==
    /\ FetchIdle
    /\ LexIdle
    /\ SchedIdle
    /\ ParseIdle
    /\ documentationSources \in configurations
    /\ cache = <<>>
    /\ cacheFile = NoFile
    /\ activeDownloads = 0
    /\ downloadQueue = <<>>
    /\ downloads = {}
    /\ refreshes = [rid \in 1..MaxRefreshes |-> IdleRefresh]
    /\ stored = [name \in SourceNames |-> ""]
    /\ managerPc = "idle"

DocsInit == ManagerInit(Configurations0)

\* refreshDocumentation() up to its await of Promise.all
RefreshDocumentation(rid) ==
    /\ UNCHANGED exceptDocs
    /\ refreshes[rid].state = "idle"
    /\ \A earlier \in 1..(rid - 1) : refreshes[earlier].state # "idle"
    /\ LET enabledSources == SelectSeq(documentationSources,
                                       LAMBDA source : source.enabled)
           sem == RunAll(Semaphore(activeDownloads, downloadQueue, downloads),
                         rid, enabledSources, cache)
       IN  IF enabledSources = <<>>
           THEN \* the warning is shown and the call returns
                /\ refreshes' = [refreshes EXCEPT ![rid].state = "complete"]
                /\ UNCHANGED <<activeDownloads, downloadQueue, downloads>>
           ELSE /\ refreshes' = [refreshes EXCEPT ![rid] =
                      [state   |-> "downloading",
                       enabledSources |-> {enabledSources[k].name :
                                              k \in 1..Len(enabledSources)},
                       waiting |-> {enabledSources[k].name :
                                       k \in 1..Len(enabledSources)},
                       upToDate |-> {}]]
                /\ activeDownloads' = sem.active
                /\ downloadQueue' = sem.queue
                /\ downloads' = sem.running
    /\ managerPc' = IF managerPc = "asking" THEN managerPc ELSE "idle"
    /\ UNCHANGED <<documentationSources, cache, cacheFile, stored>>

\* a download settles: the rest of downloadAndParseSource and, for a task of
\* the semaphore, execute's resolve or reject and its finally block
DownloadSettles(download, response, now) ==
    /\ UNCHANGED exceptDocs
    /\ download \in downloads
    /\ response.kind = "notModified" =>
          (download.sent # "" \/ download.since # "")
    /\ LET r   == downloadAndParseSource(cache, download.source, response, now)
           rid == download.refresh
       IN  /\ cache' = r.cache
           /\ stored' = IF /\ isValidUrl(download.source.url)
                           /\ response.kind = "ok"
                           /\ ContentLength(response.body) <= maxContentLength
                        THEN [stored EXCEPT
                                 ![download.source.name] = response.body]
                        ELSE stored
           /\ IF rid = 0
              THEN \* addDocumentationSource goes on: saveCacheToFile()
                   /\ downloads' = downloads \ {download}
                   /\ cacheFile' = IF r.threw THEN cacheFile
                                   ELSE saveCacheToFile(r.cache)
                   /\ UNCHANGED <<activeDownloads, downloadQueue, refreshes>>
              ELSE LET sem == processQueue(
                                  Semaphore(activeDownloads - 1, downloadQueue,
                                            downloads \ {download}),
                                  r.cache)
                       waiting == refreshes[rid].waiting \ {download.source.name}
                   IN  /\ activeDownloads' = sem.active
                       /\ downloadQueue' = sem.queue
                       /\ downloads' = sem.running
                       /\ refreshes' = [refreshes EXCEPT ![rid] =
                              [state   |-> IF r.threw \/ @.state = "rejected"
                                           THEN "rejected"
                                           ELSE IF waiting = {} THEN "loading"
                                           ELSE "downloading",
                               enabledSources |-> @.enabledSources,
                               waiting |-> waiting,
                               upToDate |-> IF r.notModified
                                            THEN @.upToDate
                                                   \cup {download.source.name}
                                            ELSE @.upToDate]]
                       /\ UNCHANGED cacheFile
    /\ UNCHANGED <<documentationSources, managerPc>>

\* refreshDocumentation() after Promise.all: loadLocalTypesFiles() and
\* saveCacheToFile()
RefreshFinishes(rid, now) ==
    /\ UNCHANGED exceptDocs
    /\ refreshes[rid].state = "loading"
    /\ cache' = loadLocalTypesFiles(cache, now)
    /\ cacheFile' = saveCacheToFile(loadLocalTypesFiles(cache, now))
    \* the progress notification of withProgress has closed
    /\ refreshes' = [refreshes EXCEPT ![rid].state = "complete",
                                      ![rid].upToDate = {}]
    /\ UNCHANGED <<documentationSources, activeDownloads, downloadQueue,
                   downloads, stored, managerPc>>

\* addDocumentationSource(): the user's answers, the setting's update and
\* the call of downloadAndParseSource
AddDocumentationSource(name, url) ==
    /\ UNCHANGED exceptDocs
    /\ \A k \in 1..Len(documentationSources) :
          documentationSources[k].name # name
    /\ IF name = "" \/ url = ""
       THEN UNCHANGED <<documentationSources, downloads>>
       ELSE /\ documentationSources' =
                   Append(documentationSources, Source(name, url, TRUE))
            /\ downloads' =
                   downloads \cup {Download(0, Source(name, url, TRUE), cache,
                                             FALSE)}
    /\ managerPc' = IF name = "" \/ url = "" \/ managerPc = "asking"
                    THEN managerPc ELSE "idle"
    /\ UNCHANGED <<cache, cacheFile, activeDownloads, downloadQueue,
                   refreshes, stored>>

DocsNext ==
    \/ \E rid \in 1..MaxRefreshes : RefreshDocumentation(rid)
    \/ \E download \in AllDownloads : \E response \in Responses :
          \E now \in DocsTimes : DownloadSettles(download, response, now)
    \/ \E rid \in 1..MaxRefreshes : \E now \in DocsTimes :
          RefreshFinishes(rid, now)
    \/ \E name \in {"", "extra"} : \E url \in {"", GoodUrl, BadUrl} :
          AddDocumentationSource(name, url)

SpecDocs == DocsInit /\ [][DocsNext]_vars

----------------------------------------------------------------------------
(* The setting changes while the manager lives: the user disables a source *)
(* or removes it from documentationSources.  refreshDocumentation reads    *)
(* the setting anew at each call.                                           *)

\* the user sets `enabled` of a configured source to false
DisableSource(name) ==
    /\ UNCHANGED exceptDocs
    /\ \E k \in 1..Len(documentationSources) :
          /\ documentationSources[k].name = name
          /\ documentationSources[k].enabled
          /\ documentationSources' =
                [documentationSources EXCEPT ![k].enabled = FALSE]
    /\ UNCHANGED <<cache, cacheFile, activeDownloads, downloadQueue,
                   downloads, refreshes, stored, managerPc>>

\* the user deletes a source from the setting
RemoveSource(name) ==
    /\ UNCHANGED exceptDocs
    /\ \E k \in 1..Len(documentationSources) :
          documentationSources[k].name = name
    /\ documentationSources' =
          SelectSeq(documentationSources, LAMBDA source : source.name # name)
    /\ UNCHANGED <<cache, cacheFile, activeDownloads, downloadQueue,
                   downloads, refreshes, stored, managerPc>>

IndexInit ==
    ManagerInit({<<Source("ox_lib", GoodUrl, TRUE),
                   Source("natives", GoodUrl, TRUE)>>})

IndexNext ==
    \/ \E rid \in 1..MaxRefreshes : RefreshDocumentation(rid)
    \/ \E download \in AllDownloads : \E response \in Responses :
          \E now \in DocsTimes : DownloadSettles(download, response, now)
    \/ \E rid \in 1..MaxRefreshes : \E now \in DocsTimes :
          RefreshFinishes(rid, now)
    \/ \E name \in {"ox_lib", "natives"} : DisableSource(name)
    \/ \E name \in {"ox_lib", "natives"} : RemoveSource(name)

SpecIndex == IndexInit /\ [][IndexNext]_vars

----------------------------------------------------------------------------
(* Conditional requests: one source is refreshed again and again by        *)
(* servers that send an etag, a last-modified date, both or none.          *)

ConditionalInit == ManagerInit({<<Source("ox_lib", GoodUrl, TRUE)>>})

ConditionalNext ==
    \/ \E rid \in 1..MaxRefreshes : RefreshDocumentation(rid)
    \/ \E download \in ConditionalDownloads :
          \E response \in ConditionalResponses :
          \E now \in ConditionalTimes :
              DownloadSettles(download, response, now)
    \/ \E rid \in 1..MaxRefreshes : \E now \in ConditionalTimes :
          RefreshFinishes(rid, now)

SpecConditional == ConditionalInit /\ [][ConditionalNext]_vars

----------------------------------------------------------------------------
(* The semaphore under load: two refresh calls of two sources keep four    *)
(* tasks at runWithSemaphore.  In the second specification every download  *)
(* that has started settles, which fetchWithRetries and the signal's       *)
(* timeout see to, and the code after the await of Promise.all runs once   *)
(* Promise.all has resolved.                                               *)

SemaphoreDownloads ==
    [refresh : 1..MaxRefreshes,
     source : {Source(name, GoodUrl, TRUE) : name \in {"ox_lib", "natives"}},
     sent : {"", ETagOf("v1")}, since : {""}, queued : BOOLEAN]

SemaphoreResponses ==
    {Response("ok", "v1", ETagOf("v1"), ""), NotModified,
     Response("networkError", "", "", "")}

SemaphoreInit == ManagerInit({<<Source("ox_lib", GoodUrl, TRUE),
                                Source("natives", GoodUrl, TRUE)>>})

SemaphoreNext ==
    \/ \E rid \in 1..MaxRefreshes : RefreshDocumentation(rid)
    \/ \E download \in SemaphoreDownloads : \E response \in SemaphoreResponses :
          DownloadSettles(download, response, 1)
    \/ \E rid \in 1..MaxRefreshes : RefreshFinishes(rid, 1)

SpecSemaphore == SemaphoreInit /\ [][SemaphoreNext]_vars

\* RefreshFinishes(rid, 1) is enabled exactly when the call is "loading",
\* and it changes refreshes: its weak fairness, with ENABLED written out
RefreshGoesOn(rid) ==
    <>[](refreshes[rid].state = "loading")
        => []<><<RefreshFinishes(rid, 1)>>_vars

SpecSemaphoreLive ==
    /\ SemaphoreInit
    /\ [][SemaphoreNext]_vars
    /\ WF_vars(\E download \in SemaphoreDownloads :
                   \E response \in SemaphoreResponses :
                       DownloadSettles(download, response, 1))
    /\ \A rid \in 1..MaxRefreshes : RefreshGoesOn(rid)

----------------------------------------------------------------------------
(* The cache's life on disk: the file is written, the extension host is    *)
(* started again and a new manager reads it.  The file system is taken to  *)
(* do what it is asked.                                                    *)

MaxEntries == 2       \* a persisted cache holds at most this many entries

\* the names a cache entry can carry: a configured source, a source the
\* user named with a number, and the workspace's types.lua
PersistNames == {"ox_lib", "7", LocalTypesEntry(0).source}

\* the instants of new Date()
PersistTimes == {1, 61001}

PersistEntries ==
    [source : PersistNames, functions : {{}, {"F", "G"}},
     lastUpdate : PersistTimes, etag : {"", ETagOf("v1")},
     lastModified : {"", LastModifiedOf("v1")}]

\* the caches of at most max entries, one entry a name
CacheStates(max) ==
    {cch \in UNION {[1..n -> PersistEntries] : n \in 0..max} :
        \A j, k \in 1..Len(cch) : j # k => cch[j].source # cch[k].source}

\* a manager whose cache the operations before have filled; nothing is on
\* disk yet
PersistInit ==
    /\ FetchIdle
    /\ LexIdle
    /\ SchedIdle
    /\ ParseIdle
    /\ documentationSources = <<>>
    /\ cache \in CacheStates(MaxEntries)
    /\ cacheFile = NoFile
    /\ activeDownloads = 0
    /\ downloadQueue = <<>>
    /\ downloads = {}
    /\ refreshes = [rid \in 1..MaxRefreshes |-> IdleRefresh]
    /\ stored = [name \in SourceNames |-> ""]
    /\ managerPc = "idle"

\* saveCacheToFile()
SaveCacheToFile ==
    /\ UNCHANGED exceptDocs
    /\ managerPc = "idle"
    /\ cacheFile' = saveCacheToFile(cache)
    /\ UNCHANGED <<documentationSources, cache, activeDownloads,
                   downloadQueue, downloads, refreshes, stored, managerPc>>

\* the extension host starts again: new DocumentationManager(context) and
\* its loadCachedDocumentation()
Restart ==
    /\ UNCHANGED exceptDocs
    /\ managerPc = "idle"
    /\ cache' = loadCachedDocumentation(<<>>, cacheFile)
    /\ managerPc' = IF cacheFile.exists THEN "loaded" ELSE "idle"
    /\ activeDownloads' = 0
    /\ downloadQueue' = <<>>
    /\ downloads' = {}
    /\ UNCHANGED <<documentationSources, cacheFile, refreshes, stored>>

PersistNext ==
    \/ SaveCacheToFile
    \/ Restart

SpecPersist == PersistInit /\ [][PersistNext]_vars

----------------------------------------------------------------------------
(* clearDocumentationCache(), beside the refreshes of one source.          *)

\* the call, up to the await of showWarningMessage
ClearDocumentationCache ==
    /\ UNCHANGED exceptDocs
    /\ managerPc # "asking"
    /\ managerPc' = "asking"
    /\ UNCHANGED <<documentationSources, cache, cacheFile, activeDownloads,
                   downloadQueue, downloads, refreshes, stored>>

\* the button of the dialog, or "" when the dialog is dismissed
Answers == {"Yes, Clear Cache", "Cancel", ""}

\* a clearDocumentationCache that does not look at the answer
ClearUnasked(answer) ==
    /\ UNCHANGED exceptDocs
    /\ managerPc = "asking"
    /\ cache' = <<>>
    /\ cacheFile' = NoFile
    /\ stored' = [name \in SourceNames |-> ""]
    /\ managerPc' = "cleared"
    /\ UNCHANGED <<documentationSources, activeDownloads, downloadQueue,
                   downloads, refreshes>>

\* the dialog is answered: the rest of clearDocumentationCache
ClearAnswered(answer) ==
    /\ UNCHANGED exceptDocs
    /\ managerPc = "asking"
    /\ IF answer # "Yes, Clear Cache"
       THEN /\ managerPc' = "idle"
            /\ UNCHANGED <<cache, cacheFile, stored>>
       ELSE /\ cache' = <<>>
            /\ cacheFile' = NoFile
            /\ stored' = [name \in SourceNames |-> ""]
            /\ managerPc' = "cleared"
    /\ UNCHANGED <<documentationSources, activeDownloads, downloadQueue,
                   downloads, refreshes>>

ClearInit == ManagerInit({<<Source("ox_lib", GoodUrl, TRUE)>>})

ClearResponses ==
    {Response("ok", "v1", ETagOf("v1"), ""), NotModified,
     Response("networkError", "", "", "")}

ClearNext ==
    \/ \E rid \in 1..MaxRefreshes : RefreshDocumentation(rid)
    \/ \E download \in AllDownloads : \E response \in ClearResponses :
          \E now \in DocsTimes : DownloadSettles(download, response, now)
    \/ \E rid \in 1..MaxRefreshes : \E now \in DocsTimes :
          RefreshFinishes(rid, now)
    \/ ClearDocumentationCache
    \/ \E answer \in Answers : ClearAnswered(answer)

SpecClear == ClearInit /\ [][ClearNext]_vars

----------------------------------------------------------------------------
(* Bodies at and over the size limit: two sources are refreshed by servers *)
(* whose only fault is the length of what they send.                       *)

SizedResponses == {Response("ok", b, "", "") : b \in {"v1", "full", "big"}}

OversizeNext ==
    \/ \E rid \in 1..MaxRefreshes : RefreshDocumentation(rid)
    \/ \E download \in AllDownloads : \E response \in SizedResponses :
          \E now \in DocsTimes : DownloadSettles(download, response, now)
    \/ \E rid \in 1..MaxRefreshes : \E now \in DocsTimes :
          RefreshFinishes(rid, now)

SpecOversize == IndexInit /\ [][OversizeNext]_vars

----------------------------------------------------------------------------
(* fetchWithRetries(url, options, context) as downloadAndParseSource calls *)
(* it: retries = 3, baseDelay = 500, and options.signal is the one signal  *)
(* AbortSignal.timeout(30000) made before the call.  What the server does  *)
(* with each request is the environment's choice.                           *)

retries == 3
baseDelay == 500

RECURSIVE Pow2(_)
Pow2(k) == IF k <= 0 THEN 1 ELSE 2 * Pow2(k - 1)       \* Math.pow(2, k)

\* a delay of another shape: baseDelay * (attempt + 1)
delayLinear(k) == baseDelay * (k + 1)

\* const delay = baseDelay * Math.pow(2, attempt)
delayFor(k) == baseDelay * Pow2(k)

Statuses == {200, 304, 404, 500, 503}

\* what a request meets: a server that answers in time with a status, a
\* network that fails, or a server that does not answer before the signal's
\* 30 seconds are over
Dispositions ==
    {[kind |-> "answer", status |-> st] : st \in Statuses}
        \cup {[kind |-> k, status |-> 0] : k \in {"networkError", "hang"}}

Answer(status) == [kind |-> "response", status |-> status, error |-> ""]
Thrown(error) == [kind |-> "error", status |-> 0, error |-> error]

\* how fetch(url, options) settles: a signal that has aborted rejects the
\* call at once with the signal's reason; a request not answered in time is
\* rejected when the signal aborts
fetch(disposition, signalAborted) ==
    IF signalAborted \/ disposition.kind = "hang" THEN Thrown("TimeoutError")
    ELSE IF disposition.kind = "networkError" THEN Thrown("TypeError")
    ELSE Answer(disposition.status)

FetchInit ==
    /\ LexIdle
    /\ SchedIdle
    /\ ParseIdle
    /\ documentationSources = <<>>
    /\ cache = <<>>
    /\ cacheFile = NoFile
    /\ activeDownloads = 0
    /\ downloadQueue = <<>>
    /\ downloads = {}
    /\ refreshes = [rid \in 1..MaxRefreshes |-> IdleRefresh]
    /\ stored = [name \in SourceNames |-> ""]
    /\ managerPc = "idle"
    /\ attempt = 0
    /\ lastError = Nothing
    /\ aborted = FALSE
    /\ fetchPc = "fetching"
    /\ fetchResult = Nothing
    /\ attemptLog = <<>>
    /\ delayLog = <<>>

\* the awaited fetch settles: one pass through the try block or the catch
\* block, up to the await of this.delay, the return or the throw
AttemptSettles(disposition) ==
    /\ UNCHANGED exceptFetch
    /\ fetchPc = "fetching"
    /\ LET outcome == fetch(disposition, aborted)
       IN  /\ aborted' = (aborted \/ disposition.kind = "hang")
           /\ attemptLog' = Append(attemptLog, [disposition |-> disposition,
                                                outcome     |-> outcome])
           /\ IF outcome.kind = "response"
              THEN /\ UNCHANGED lastError
                   /\ IF outcome.status >= 500 /\ attempt < retries
                      THEN /\ delayLog' = Append(delayLog, delayFor(attempt))
                           /\ fetchPc' = "delaying"
                           /\ UNCHANGED fetchResult
                      ELSE /\ fetchPc' = "returned"
                           /\ fetchResult' = outcome
                           /\ UNCHANGED delayLog
              ELSE /\ lastError' = outcome
                   /\ IF attempt >= retries
                      THEN /\ fetchPc' = "thrown"
                           /\ fetchResult' = outcome
                           /\ UNCHANGED delayLog
                      ELSE /\ delayLog' = Append(delayLog, delayFor(attempt))
                           /\ fetchPc' = "delaying"
                           /\ UNCHANGED fetchResult
    /\ UNCHANGED attempt

\* the delay is over: attempt += 1 and the loop's test
DelayElapses ==
    /\ UNCHANGED exceptFetch
    /\ fetchPc = "delaying"
    /\ attempt' = attempt + 1
    /\ IF attempt + 1 <= retries
       THEN fetchPc' = "fetching" /\ UNCHANGED fetchResult
       ELSE /\ fetchPc' = "thrown"
            /\ fetchResult' = IF lastError = Nothing THEN Thrown("Error")
                              ELSE lastError
    /\ UNCHANGED <<lastError, aborted, attemptLog, delayLog>>

\* the signal's 30 seconds end while fetchWithRetries waits between two
\* attempts
SignalAbortsInDelay ==
    /\ UNCHANGED exceptFetch
    /\ fetchPc = "delaying"
    /\ ~aborted
    /\ aborted' = TRUE
    /\ UNCHANGED <<attempt, lastError, fetchPc, fetchResult, attemptLog,
                   delayLog>>

FetchNext ==
    \/ \E disposition \in Dispositions : AttemptSettles(disposition)
    \/ DelayElapses
    \/ SignalAbortsInDelay

SpecFetch == FetchInit /\ [][FetchNext]_vars

\* every fetch settles, by the signal at the latest, and every setTimeout
\* of this.delay fires
SpecFetchLive ==
    /\ FetchInit
    /\ [][FetchNext]_vars
    /\ WF_vars(\E disposition \in Dispositions : AttemptSettles(disposition))
    /\ WF_vars(DelayElapses)

----------------------------------------------------------------------------
(* The parser's inputs and its specification                               *)

ParamLineA == "---@param a number first"
ParamLineB == "---@param b string second"
ReturnLine == "---@return boolean ok"

DeclarationLines ==
    {"function F(a, b)", "local function F(a, b)", "F = function(a, b)",
     "lib.F = function(a, b)", "exports.F = function(a, b)"}

ParseLineSet ==
    {ParamLineA, ParamLineB, ReturnLine, "--- Adds an item", "end"}
        \cup DeclarationLines

\* the texts of at most max lines
ParseTexts(max) ==
    UNION {{JoinWith(ls, "\n") : ls \in [1..n -> ParseLineSet]} :
              n \in 1..max}

SourceName == "types"

ParseInit ==
    /\ LexIdle
    /\ SchedIdle
    /\ DocsIdle
    /\ content \in ParseTexts(MaxParseLines)
    /\ functions = <<>>
    /\ parsePc = "input"

\* DocumentationParser.parseLuaTypes(content, source.name)
ParseLuaTypes ==
    /\ UNCHANGED exceptParse
    /\ parsePc = "input"
    /\ functions' = parseLuaTypes(content, SourceName)
    /\ parsePc' = "done"
    /\ UNCHANGED content

ParseNext == ParseLuaTypes

SpecParse == ParseInit /\ [][ParseNext]_vars

----------------------------------------------------------------------------
(* Parameter lists and doc-comment lines for parseParameters: items with   *)
(* and without the `?` mark and with blanks around them, annotations that  *)
(* name a listed parameter, one that names none, and lines that annotate   *)
(* nothing.                                                                 *)

MaxParams == 2            \* a list has at most this many items, a comment
                          \* block at most this many lines

ParamItems == {"a", "b?", " c ", "d ?", "..."}

ParamStrings(max) ==
    {"", "  "} \cup
    UNION {{JoinWith(items, ",") : items \in [1..n -> ParamItems]} : n \in 1..max}

CommentLineSet ==
    {"@param a number first", "@param b string", "@param z table unused",
     "@param d boolean", "Adds an item"}

CommentBlocks(max) == UNION {[1..n -> CommentLineSet] : n \in 0..max}

ParamsInit ==
    /\ LexIdle
    /\ SchedIdle
    /\ DocsIdle
    /\ content \in [paramString : ParamStrings(MaxParams),
                    commentLines : CommentBlocks(MaxParams)]
    /\ functions = <<>>
    /\ parsePc = "input"

\* DocumentationParser.parseParameters(params, currentComment)
ParseParameters ==
    /\ UNCHANGED exceptParse
    /\ parsePc = "input"
    /\ functions' = parseParameters(content.paramString, content.commentLines)
    /\ parsePc' = "done"
    /\ UNCHANGED content

SpecParams == ParamsInit /\ [][ParseParameters]_vars

----------------------------------------------------------------------------
(* The natives parser's inputs and its specification.                      *)

MaxNatives == 2       \* a catalog has at most this many entries

WellFormedNative ==
    JsObject(<< <<"name", JsString("GetPed")>>,
                <<"description", JsString("the ped")>>,
                <<"side", JsString("client")>>,
                <<"parameters",
                  JsArray(<<JsObject(<< <<"name", JsString("id")>>,
                                        <<"type", JsString("int")>> >>),
                            JsString("junk"), JsNull>>)>>,
                <<"returns",
                  JsArray(<<JsNumber(3),
                            JsObject(<< <<"type", JsString("Ped")>> >>)>>)>> >>)

SingleReturnNative ==
    JsObject(<< <<"parameters", JsString("none")>>,
                <<"returns", JsObject(<< <<"type", JsString("bool")>> >>)>> >>)

\* what a catalog holds under a key, or a root array at an index
NativeValues ==
    {JsNull, JsNumber(7), JsString("native"), JsArray(<<>>), JsObject(<<>>),
     WellFormedNative, SingleReturnNative}

NativeKeys == <<"A", "B", "C">>

\* the contents of at most max entries: a text that is not JSON, a root
\* that is a primitive, an array, or an object
NativesContents(max) ==
    {NotJson, Json(JsNull), Json(JsNumber(7)), Json(JsString("natives"))}
        \cup UNION {{Json(JsArray(items)) : items \in [1..n -> NativeValues]} :
                       n \in 0..max}
        \cup UNION {{Json(JsObject([k \in 1..n |->
                                      <<NativeKeys[k], values[k]>>])) :
                        values \in [1..n -> NativeValues]} : n \in 0..max}

NativesInit ==
    /\ LexIdle
    /\ SchedIdle
    /\ DocsIdle
    /\ content \in NativesContents(MaxNatives)
    /\ functions = <<>>
    /\ parsePc = "input"

\* DocumentationParser.parseNatives(content, source.name)
ParseNatives ==
    /\ UNCHANGED exceptParse
    /\ parsePc = "input"
    /\ functions' = parseNatives(content, "natives")
    /\ parsePc' = "done"
    /\ UNCHANGED content

SpecNatives == NativesInit /\ [][ParseNatives]_vars

----------------------------------------------------------------------------
(* The lexer's inputs and its specification: a text is chosen, the context *)
(* is built from it, and the sanitized text is sanitized once more.        *)

TokPieces ==
    {"--", "[[", "]]", "[=[", "]=]", "\"", "'", "\\", "\n", "\r", "a"}

\* the texts of at most max pieces
TokTexts(max) ==
    UNION {{Flatten(ps) : ps \in [1..n -> TokPieces]} : n \in 0..max}

TokInitState ==
    /\ SchedIdle
    /\ DocsIdle
    /\ ParseIdle
    /\ text \in TokTexts(MaxPieces)
    /\ context = NoContext
    /\ resanitized = NotRun
    /\ config = Settings
    /\ diagnostics = <<>>
    /\ lexPc = "input"

CreateContext ==
    /\ lexPc = "input"
    /\ context' = createLuaDiagnosticContext(text)
    /\ lexPc' = "context"
    /\ UNCHANGED <<text, resanitized, config, diagnostics>>
    /\ UNCHANGED exceptLex

SanitizeAgain ==
    /\ lexPc = "context"
    /\ resanitized' = tokenizeLua(context.sanitizedText)
    /\ lexPc' = "done"
    /\ UNCHANGED <<text, context, config, diagnostics>>
    /\ UNCHANGED exceptLex

TokNext == CreateContext \/ SanitizeAgain

SpecTok == TokInitState /\ [][TokNext]_vars

----------------------------------------------------------------------------
(* The lexer's loop, one iteration at a time: while tokenizeLua runs,      *)
(* `context` holds its locals (the context is not built yet) and            *)
(* `resanitized` receives the string it returns. The texts are well-formed *)
(* and malformed: strings that never end, a backslash at the end, openers  *)
(* without a closer, closers of another level.                             *)

MaxLoopPieces == 3    \* a text of the stepped loop is at most this many
                      \* pieces long

LoopPieces ==
    {"--", "[[", "[=[", "]]", "]=]", "]==]", "\"", "\\", "\n", "a"}

LoopTexts(max) ==
    UNION {{Flatten(ps) : ps \in [1..n -> LoopPieces]} : n \in 0..max}

LoopInitState ==
    /\ SchedIdle
    /\ DocsIdle
    /\ ParseIdle
    /\ text \in LoopTexts(MaxLoopPieces)
    /\ context = TokInit
    /\ resanitized = NotRun
    /\ config = Settings
    /\ diagnostics = <<>>
    /\ lexPc = "loop"

\* one iteration of `while (i < text.length)`
TokenizeStep ==
    /\ lexPc = "loop"
    /\ context.i < Len(text)
    /\ context' = TokStep(text, context)
    /\ UNCHANGED <<text, resanitized, config, diagnostics, lexPc>>
    /\ UNCHANGED exceptLex

\* the loop's exit and `return result`
TokenizeReturn ==
    /\ lexPc = "loop"
    /\ ~(context.i < Len(text))
    /\ resanitized' = context.result
    /\ lexPc' = "done"
    /\ UNCHANGED <<text, context, config, diagnostics>>
    /\ UNCHANGED exceptLex

LoopNext == TokenizeStep \/ TokenizeReturn

SpecLoop == LoopInitState /\ [][LoopNext]_vars

\* tokenizeLua is synchronous code: once called it runs its next statement
SpecLoopLive == SpecLoop /\ WF_vars(LoopNext)

----------------------------------------------------------------------------
(* Texts that open with a long bracket, for the lexer's bracket matching:  *)
(* openers and closers of levels 0, 1 and 2 and the characters they are    *)
(* made of.                                                                *)

BracketPieces ==
    {"[[", "[=[", "[==[", "]]", "]=]", "]==]", "]", "=", "a", "\n"}

\* the texts that begin with an opener, as a long string or after `--`
BracketTexts(max) ==
    UNION {{start \o opener \o Flatten(ps) :
               ps \in [1..n -> BracketPieces],
               opener \in {"[[", "[=[", "[==["},
               start \in {"", "--"}} : n \in 0..(max - 1)}

BracketInitState ==
    /\ SchedIdle
    /\ DocsIdle
    /\ ParseIdle
    /\ text \in BracketTexts(MaxPieces)
    /\ context = NoContext
    /\ resanitized = NotRun
    /\ config = Settings
    /\ diagnostics = <<>>
    /\ lexPc = "input"

SpecBracket == BracketInitState /\ [][TokNext]_vars

----------------------------------------------------------------------------
(* The scanned documents and the specification of a scan: a document of    *)
(* Lua lines is chosen with a configuration, and scanDocument runs on it.  *)

DocLines ==
    {"while true do", "if x then", "end", "  Wait(0)",
     "s = \"Citizen.Wait(0)\" -- while true do"}

RECURSIVE JoinLines(_)
JoinLines(ls) ==
    IF ls = <<>> THEN ""
    ELSE IF Len(ls) = 1 THEN ls[1]
    ELSE ls[1] \o "\n" \o JoinLines(Tail(ls))

\* the documents of at most max lines
Documents(max) ==
    UNION {{JoinLines(ls) : ls \in [1..n -> DocLines]} : n \in 1..max}

Configurations == {Settings, {"enableWhileLoopCheck", "enableRepeatLoopCheck"}}

DiagInitState ==
    /\ SchedIdle
    /\ DocsIdle
    /\ ParseIdle
    /\ text \in Documents(MaxDocLines)
    /\ config \in Configurations
    /\ context = NoContext
    /\ resanitized = NotRun
    /\ diagnostics = <<>>
    /\ lexPc = "input"

ScanDocument ==
    /\ lexPc = "input"
    /\ context' = createLuaDiagnosticContext(text)
    /\ diagnostics' = scanDocument(text, config)
    /\ lexPc' = "done"
    /\ UNCHANGED <<text, resanitized, config>>
    /\ UNCHANGED exceptLex

DiagNext == ScanDocument

SpecDiag == DiagInitState /\ [][DiagNext]_vars

----------------------------------------------------------------------------
(* Documents that draw diagnostics of every severity.                      *)

MaxSeverityLines == 4     \* such a document is at most this many lines long

SeverityLines ==
    {"while true do", "end", "repeat", "until f(GetPlayerPed(-1))",
     "local function f(a)", "Citizen.Wait(0)"}

SeverityDocuments(max) ==
    UNION {{JoinLines(ls) : ls \in [1..n -> SeverityLines]} : n \in 1..max}

SeverityInitState ==
    /\ SchedIdle
    /\ DocsIdle
    /\ ParseIdle
    /\ text \in SeverityDocuments(MaxSeverityLines)
    /\ config \in Configurations
    /\ context = NoContext
    /\ resanitized = NotRun
    /\ diagnostics = <<>>
    /\ lexPc = "input"

SpecSeverity == SeverityInitState /\ [][DiagNext]_vars

----------------------------------------------------------------------------
(* Documents of nested blocks, blank sanitized lines and lines that open   *)
(* and close a block at once, scanned by the two loop passes.              *)

MaxBlockLines == 4        \* such a document is at most this many lines long

BlockLines ==
    {"while a do", "end", "-- end", "while b do end", "repeat", "until x"}

BlockDocuments(max) ==
    UNION {{JoinLines(ls) : ls \in [1..n -> BlockLines]} : n \in 1..max}

BlockInitState ==
    /\ SchedIdle
    /\ DocsIdle
    /\ ParseIdle
    /\ text \in BlockDocuments(MaxBlockLines)
    /\ config = {"enableWhileLoopCheck", "enableRepeatLoopCheck"}
    /\ context = NoContext
    /\ resanitized = NotRun
    /\ diagnostics = <<>>
    /\ lexPc = "input"

SpecBlockEnd == BlockInitState /\ [][DiagNext]_vars

----------------------------------------------------------------------------
(* Documents that declare and call a local function, scanned with the      *)
(* function order check enabled.                                            *)

OrderLines ==
    {"local function f(a)", "f(1)", "  x = f(f (2))", "-- f(3)",
     "obj.g(f(4), xf(5))"}

OrderDocuments(max) ==
    UNION {{JoinLines(ls) : ls \in [1..n -> OrderLines]} : n \in 1..max}

OrderConfigurations ==
    {{"enableLocalFunctionOrderCheck"},
     {"enableLocalFunctionOrderCheck", "enableWhileLoopCheck"}}

OrderInitState ==
    /\ SchedIdle
    /\ DocsIdle
    /\ ParseIdle
    /\ text \in OrderDocuments(MaxDocLines)
    /\ config \in OrderConfigurations
    /\ context = NoContext
    /\ resanitized = NotRun
    /\ diagnostics = <<>>
    /\ lexPc = "input"

SpecOrder == OrderInitState /\ [][DiagNext]_vars

----------------------------------------------------------------------------
(* Documents that declare locals and assign names at the top level,        *)
(* scanned with the global variable check enabled.                          *)

GlobalLines ==
    {"local a, b = nil, nil", "b = 2", "local function f() end", "f = nil",
     "Config = 1", "y = 2"}

GlobalDocuments(max) ==
    UNION {{JoinLines(ls) : ls \in [1..n -> GlobalLines]} : n \in 1..max}

GlobalConfigurations ==
    {{"enableGlobalVariableCheck"},
     {"enableGlobalVariableCheck", "enableLocalFunctionOrderCheck"}}

GlobalInitState ==
    /\ SchedIdle
    /\ DocsIdle
    /\ ParseIdle
    /\ text \in GlobalDocuments(MaxDocLines)
    /\ config \in GlobalConfigurations
    /\ context = NoContext
    /\ resanitized = NotRun
    /\ diagnostics = <<>>
    /\ lexPc = "input"

SpecGlobals == GlobalInitState /\ [][DiagNext]_vars

----------------------------------------------------------------------------
(* Documents that register net events and attach handlers, next to each    *)
(* other and apart, scanned with the net event check enabled.              *)

MaxEventLines == 3        \* such a document is at most this many lines long

EventLines ==
    {"RegisterNetEvent('a')", "AddEventHandler('a', f)",
     "AddEventHandler('b', f)", "x = 1", "RegisterNetEvent('b')"}

EventDocuments(max) ==
    UNION {{JoinLines(ls) : ls \in [1..n -> EventLines]} : n \in 1..max}

EventConfigurations ==
    {{"enableNetEventCheck"}, {"enableNetEventCheck", "enableCitizenPatterns"}}

EventInitState ==
    /\ SchedIdle
    /\ DocsIdle
    /\ ParseIdle
    /\ text \in EventDocuments(MaxEventLines)
    /\ config \in EventConfigurations
    /\ context = NoContext
    /\ resanitized = NotRun
    /\ diagnostics = <<>>
    /\ lexPc = "input"

SpecEvents == EventInitState /\ [][DiagNext]_vars

----------------------------------------------------------------------------
(* Documents that call the deprecated natives in code, in string literals  *)
(* and in comments, scanned with the performance check enabled.            *)

MaxPerfLines == 2         \* such a document is at most this many lines long

PerfLines ==
    {"GetPlayerPed(-1)", "'GetPlayerPed(-1)' GetPlayerPed(-1)",
     "-- GetPlayerPed(-1)", "GetEntityCoords(PlayerPedId())",
     "a = 'b' -- c", "x = 1"}

PerfDocuments(max) ==
    UNION {{JoinLines(ls) : ls \in [1..n -> PerfLines]} : n \in 1..max}

PerfConfigurations ==
    {{"enablePerformanceCheck"}, {"enablePerformanceCheck", "enableWhileLoopCheck"}}

PerfInitState ==
    /\ SchedIdle
    /\ DocsIdle
    /\ ParseIdle
    /\ text \in PerfDocuments(MaxPerfLines)
    /\ config \in PerfConfigurations
    /\ context = NoContext
    /\ resanitized = NotRun
    /\ diagnostics = <<>>
    /\ lexPc = "input"

SpecPerf == PerfInitState /\ [][DiagNext]_vars

----------------------------------------------------------------------------
(* Properties of the sanitizer. *)

SameNewlines(a, b) ==
    \A k \in 0..(Len(a) - 1) : (At(a, k) = "\n") <=> (At(b, k) = "\n")

\* C1: tokenizeLua(text) has the length of text and a newline exactly at the
\* offsets where text has one.
C1_ShapeKept ==
    lexPc # "input" =>
        /\ Len(context.sanitizedText) = Len(text)
        /\ SameNewlines(text, context.sanitizedText)

\* a newline after a backslash inside a string was kept, the backslash masked
C1_Witness ==
    /\ lexPc = "context"
    /\ \E k \in 0..(Len(text) - 1) :
          /\ At(text, k) = "\\" /\ At(text, k + 1) = "\n"
          /\ At(context.sanitizedText, k) = " "
          /\ At(context.sanitizedText, k + 1) = "\n"

\* C9: sanitizedLines and lines have the same count and equal lengths line
\* by line, for every document text (CRLF included).
C9_LinesAligned ==
    lexPc # "input" =>
        /\ Len(context.sanitizedLines) = Len(context.lines)
        /\ \A n \in 1..Len(context.lines) :
              n <= Len(context.sanitizedLines) =>
                  Len(context.sanitizedLines[n]) = Len(context.lines[n])

\* C10: sanitizing the sanitized text changes nothing.
C10_Idempotent ==
    lexPc = "done" => resanitized = context.sanitizedText

\* the second pass ran over a text the first pass had masked in part
C10_Witness ==
    /\ lexPc = "done"
    /\ context.sanitizedText # text
    /\ \E k \in 0..(Len(text) - 1) : At(context.sanitizedText, k) = "a"
    /\ \E k \in 0..(Len(text) - 1) : At(text, k) = "\""

----------------------------------------------------------------------------
(* Properties of the diagnostic passes. *)

DiagnosticAt(code, lineIndex) ==
    \E k \in 1..Len(diagnostics) :
        diagnostics[k].code = code /\ diagnostics[k].line = lineIndex

\* the pattern a diagnostic reports stands in the code of its line, that
\* is in the sanitized line
PatternInCode(d) ==
    LET sl == LineAt(context.sanitizedLines, d.line)
        rl == LineAt(context.lines, d.line)
    IN  CASE d.code = "fivem-while-no-wait" -> Includes(sl, "while")
          [] d.code = "fivem-repeat-no-wait" -> Includes(sl, "repeat")
          [] d.code = "fivem-global-variable" -> AssignmentName(Trim(sl)) # ""
          [] d.code = "fivem-performance-ped" -> Includes(sl, "GetPlayerPed(-1)")
          [] d.code = "fivem-cache-coords" ->
                 Includes(sl, "GetEntityCoords(PlayerPedId())")
          [] d.code = "fivem-modern-event" -> Includes(sl, "RegisterServerEvent")
          [] d.code = "fivem-combine-event" -> Includes(sl, "AddEventHandler")
          [] d.code = "fivem-style-spacing" -> Includes(sl, "function")
          [] d.code = "fivem-citizen-create-thread" ->
                 Includes(sl, "Citizen.CreateThread")
          [] d.code = "fivem-citizen-wait" -> Includes(sl, "Citizen.Wait")
          [] d.code = "lua-function-order-error" ->
                 Slice(sl, d.start, d.end) = Slice(rl, d.start, d.end)

\* C2: no pass reports a pattern that occurs only inside a string literal,
\* a long string or a comment.
C2_CommentStringImmunity ==
    lexPc = "done" =>
        \A k \in 1..Len(diagnostics) : PatternInCode(diagnostics[k])

\* the number of occurrences of the word w in line
CountWord(line, w) ==
    Cardinality({i \in 0..(Len(line) - 1) :
                    /\ StartsWithAt(line, w, i)
                    /\ WordBoundary(line, i)
                    /\ WordBoundary(line, i + Len(w))})

\* the blocks a line opens that an `end` closes
BlockOpeners(line) ==
    CountWord(line, "while") + CountWord(line, "for")
    + CountWord(line, "if") + CountWord(line, "function")

RECURSIVE SyntacticEndFrom(_, _, _)
SyntacticEndFrom(ls, i, depth) ==
    IF i >= Len(ls) THEN -1
    ELSE LET d == depth + BlockOpeners(LineAt(ls, i))
                        - CountWord(LineAt(ls, i), "end")
         IN  IF d <= 0 THEN i ELSE SyntacticEndFrom(ls, i + 1, d)

\* the line of the `end` that closes the loop opened on line startIndex
SyntacticEnd(ls, startIndex) == SyntacticEndFrom(ls, startIndex + 1, 1)

\* C3: a closed `while ... do` loop is warned about exactly when no line of
\* its body, up to the `end` that closes the loop, calls Wait.
C3_WhileWarnedIffNoWait ==
    (lexPc = "done" /\ "enableWhileLoopCheck" \in config) =>
        \A n \in 0..(Len(context.sanitizedLines) - 1) :
            LET ls     == context.sanitizedLines
                closer == SyntacticEnd(ls, n)
            IN  (WhileMatch(LineAt(ls, n)).found /\ closer # -1) =>
                    (DiagnosticAt("fivem-while-no-wait", n)
                        <=> ~SomeWaitIn(ls, n + 1, closer))


----------------------------------------------------------------------------
(* The scan orchestrator's properties                                      *)

\* C4: a burst of scan triggers for one Lua document, however long, leads to
\* exactly one scan: while a timer of the burst is armed it is the only one
\* for the document and no scan of the burst has run, and once none is
\* armed exactly one scan has run and what it published is the scan of the
\* document's text as it then stood.
C4_OneScanPerBurst ==
    \A uri \in LuaUris :
        /\ (burst[uri] >= 1 /\ ArmedFor(uri) # {}) =>
              /\ Cardinality(ArmedFor(uri)) = 1
              /\ burstScans[uri] = 0
        /\ (burst[uri] >= 1 /\ ArmedFor(uri) = {}) =>
              /\ burstScans[uri] = 1
              /\ diagnosticCollection[uri] =
                     Published(scanDocument(docText[uri], config))

\* a burst of MaxBurst triggers, an edit among them, has been scanned
C4_Witness ==
    \E uri \in LuaUris :
        /\ burst[uri] = MaxBurst
        /\ ArmedFor(uri) = {}
        /\ burstScans[uri] = 1
        /\ docText[uri] = "t = \"while true do\""
        /\ diagnosticCollection[uri] # NotPublished

\* C5: from the close of a Lua document until its next scan trigger no timer
\* is pending for it and nothing is published for it.
C5_ClosedStaysClear ==
    \A uri \in LuaUris :
        quiet[uri] =>
            /\ ArmedFor(uri) = {}
            /\ documentScanTimers[uri] = 0
            /\ diagnosticCollection[uri] = NotPublished

\* a document is closed and quiet while another has a scan pending and
\* diagnostics published
C5_Witness ==
    \E uri \in LuaUris :
        /\ quiet[uri]
        /\ \E other \in LuaUris \ {uri} :
              /\ ArmedFor(other) # {}
              /\ diagnosticCollection[other] # NotPublished


----------------------------------------------------------------------------
(* The documentation manager's properties                                  *)

\* C6: at every moment at most maxConcurrentDownloads executions of
\* downloadAndParseSource are in flight, whichever operation started them.
C6_AtMostTwoInFlight == Cardinality(downloads) <= maxConcurrentDownloads

\* the entry a source has after its body was parsed and cached
EntryFor(name, body) ==
    IF body = "" THEN [source |-> "", functions |-> {}, etag |-> ""]
    ELSE [source |-> name, functions |-> FunctionsIn(body), etag |-> ETagOf(body)]

\* what the cache has of a source: its name, its functions and its etag
CachedOf(name) ==
    LET entry == CacheGet(cache, name)
    IN  [source |-> entry.source, functions |-> entry.functions,
         etag |-> entry.etag]

Enabled(name) ==
    \E k \in 1..Len(documentationSources) :
        /\ documentationSources[k].name = name
        /\ documentationSources[k].enabled

\* C7: no refresh is rejected; a source's cache entry is always the one its
\* last successful download stored, so a failed download leaves it as it was
\* and a successful one is stored whatever its siblings did; a refresh that
\* has left Promise.all has no download of its own waiting or running; and
\* a download waits in the queue only while the semaphore is full, so a
\* failure never leaves a sibling waiting behind an idle semaphore.
C7_RefreshIsolation ==
    /\ \A rid \in 1..MaxRefreshes : refreshes[rid].state # "rejected"
    /\ \A name \in SourceNames :
          CachedOf(name) = EntryFor(name, stored[name])
    /\ \A rid \in 1..MaxRefreshes :
          refreshes[rid].state \in {"loading", "complete"} =>
              /\ \A download \in downloads : download.refresh # rid
              /\ \A k \in 1..Len(downloadQueue) : downloadQueue[k].refresh # rid
    /\ downloadQueue # <<>> => activeDownloads = maxConcurrentDownloads

\* a refresh has completed in which natives failed and ox_lib was stored
C7_Witness ==
    \E rid \in 1..MaxRefreshes :
        /\ refreshes[rid].state = "complete"
        /\ Enabled("natives")
        /\ stored["natives"] = ""
        /\ CacheGet(cache, "ox_lib") # NoEntry
        /\ CacheGet(loadCachedDocumentation(<<>>, cacheFile), "ox_lib") # NoEntry


----------------------------------------------------------------------------
(* The documentation parser's properties                                   *)

\* line k of ls is a declaration whose doc-comment block, the run of `---`
\* lines that ends right above it, holds the line annotation
InBlockAbove(ls, k, annotation) ==
    \E j \in 1..(k - 1) :
        /\ ls[j] = annotation
        /\ \A m \in j..(k - 1) : StartsWithAt(ls[m], "---", 0)

\* the FunctionDoc carries the annotations of ParamLineA, ParamLineB and
\* ReturnLine
CarriesAnnotations(doc) ==
    /\ doc.parameters =
           <<[name |-> "a", optional |-> FALSE, type |-> "number",
              description |-> "first"],
             [name |-> "b", optional |-> FALSE, type |-> "string",
              description |-> "second"]>>
    /\ "returns" \in DOMAIN doc
    /\ \E r \in 1..Len(doc.returns) :
          doc.returns[r] = [type |-> "boolean", description |-> "ok"]

\* C8: when the text ends in a declaration of F(a, b), of whichever shape,
\* whose doc-comment block annotates a, b and the return value, the parser's
\* FunctionDoc for F carries those annotations.
C8_AnnotationsKept ==
    parsePc = "done" =>
        LET ls == SplitOn(content, "\n")
            k  == Len(ls)
        IN  (/\ ls[k] \in DeclarationLines
             /\ InBlockAbove(ls, k, ParamLineA)
             /\ InBlockAbove(ls, k, ParamLineB)
             /\ InBlockAbove(ls, k, ReturnLine)) =>
                \E e \in 1..Len(functions) :
                    /\ functions[e].key \in {"F", "lib.F", "exports.F"}
                    /\ CarriesAnnotations(functions[e].value)


----------------------------------------------------------------------------
(* The lexer's bracket matching                                            *)

RECURSIVE Blanked(_)
\* s with every character but the newline replaced by a space
Blanked(s) ==
    IF s = "" THEN ""
    ELSE (IF At(s, 0) = "\n" THEN "\n" ELSE " ") \o Blanked(Slice(s, 1, Len(s)))

RECURSIVE Equals(_)
Equals(n) == IF n <= 0 THEN "" ELSE "=" \o Equals(n - 1)

\* where the text's opener begins: after a leading `--`, or at 0
OpenerAt(s) == IF StartsWithAt(s, "--", 0) THEN 2 ELSE 0

OpensWithBracket(s) ==
    \E L \in 0..Len(s) : StartsWithAt(s, "[" \o Equals(L) \o "[", OpenerAt(s))

\* the level of the opener the text begins with
OpenerLevel(s) ==
    CHOOSE L \in 0..Len(s) :
        StartsWithAt(s, "[" \o Equals(L) \o "[", OpenerAt(s))

\* the offset just past the first `]` + L `=` + `]` after the opener, or the
\* end of the text when there is none
BlockEnd(s) ==
    LET L      == OpenerLevel(s)
        closer == "]" \o Equals(L) \o "]"
        at     == IndexOfFrom(s, closer, OpenerAt(s) + L + 2)
    IN  IF at < 0 THEN Len(s) ELSE at + L + 2

\* C11: a block comment or long string opened at level L runs to the first
\* `]` + exactly L `=` + `]` after the opener and no further: everything up
\* to there is masked, whatever closers of other levels and openers lie in
\* between, and what follows is read as code again.
C11_ExactLevelCloses ==
    (lexPc # "input" /\ OpensWithBracket(text)) =>
        context.sanitizedText =
            Blanked(Slice(text, 0, BlockEnd(text)))
                \o tokenizeLua(Slice(text, BlockEnd(text), Len(text)))

\* a level-2 block holds a closer of a lower level, ends at `]==]`, and the
\* `a` after it is code
C11_Witness ==
    /\ lexPc # "input"
    /\ OpensWithBracket(text)
    /\ OpenerLevel(text) = 2
    /\ \E k \in 0..(BlockEnd(text) - 5) :
          StartsWithAt(text, "]=]", k) \/ StartsWithAt(text, "]]", k)
    /\ BlockEnd(text) = Len(text) - 1
    /\ At(text, Len(text) - 1) = "a"
    /\ At(context.sanitizedText, Len(text) - 1) = "a"

----------------------------------------------------------------------------
(* The function order check.                                                *)

\* the lines of the scanned text that hold a `local function f(`
DeclarationLinesOf(ls) ==
    {i \in 0..(Len(ls) - 1) : Includes(LineAt(ls, i), "local function f(")}

\* the columns of a line where the identifier f is followed by `(`
CallColumns(line) ==
    {k \in 0..(Len(line) - 1) :
        /\ At(line, k) = "f"
        /\ ~IsWordChar(At(line, k - 1))
        /\ At(line, SkipWhile(line, k + 1, WsChars)) = "("}

IsCommentLine(line) == StartsWithAt(Trim(line), "--", 0)

OrderDiagnostics ==
    SelectSeq(diagnostics, LAMBDA dg : dg.code = "lua-function-order-error")

\* the diagnostics the calls before line d are due
ForwardReferences(ls, d) ==
    {Diagnostic("lua-function-order-error", "Error", i, k, k + 1) :
        <<i, k>> \in {p \in (0..(d - 1)) \X (0..Len(text)) :
                         /\ ~IsCommentLine(LineAt(ls, p[1]))
                         /\ p[2] \in CallColumns(LineAt(ls, p[1]))}}

----------------------------------------------------------------------------
(* The global variable check.                                               *)

\* the identifiers of s
IdentifiersIn(s) ==
    {Slice(s, i, SkipWhile(s, i, WordChars)) :
        i \in {k \in 0..(Len(s) - 1) :
                  IsIdentStart(At(s, k)) /\ ~IsWordChar(At(s, k - 1))}}

\* the end of the name list of a declaration: its `=` or `(`, or the end
NameListEnd(s) ==
    LET stops == {k \in 0..(Len(s) - 1) : At(s, k) \in {"=", "("}}
    IN  IF stops = {} THEN Len(s)
        ELSE CHOOSE k \in stops : \A j \in stops : k <= j

\* the names a line introduces with `local`: the variables of `local a, b`
\* and the function of `local function f`
DeclaredLocals(line) ==
    IF StartsWithAt(Trim(line), "local ", 0)
    THEN IdentifiersIn(Slice(Trim(line), 6, NameListEnd(Trim(line))))
            \ {"function"}
    ELSE {}

LocalsBefore(ls, lineIndex) ==
    UNION {DeclaredLocals(LineAt(ls, i)) : i \in 0..(lineIndex - 1)}

GlobalDiagnostics ==
    SelectSeq(diagnostics, LAMBDA dg : dg.code = "fivem-global-variable")

\* the identifier a diagnostic spans
ReportedName(dg) == Slice(LineAt(context.lines, dg.line), dg.start, dg.end)

\* C13: the global variable check reports neither a name that a `local`
\* declaration on an earlier line introduced, be it one of several names of
\* a comma-separated declaration, nor a name of the exception list.
C13_LocalsAndExceptionsNotReported ==
    lexPc = "done" =>
        \A n \in DOMAIN GlobalDiagnostics :
            LET dg == GlobalDiagnostics[n]
            IN  /\ ReportedName(dg) \notin LocalsBefore(context.lines, dg.line)
                /\ ReportedName(dg) \notin globalPatterns

----------------------------------------------------------------------------
(* The documentation index.                                                 *)

\* the source names of the cache's entries
CachedSources(cch) == {cch[k].source : k \in 1..Len(cch)}

\* the names of the setting's enabled sources
EnabledNames ==
    {documentationSources[k].name :
        k \in {j \in 1..Len(documentationSources) :
                  documentationSources[j].enabled}}

\* a refresh call that began after source name was disabled or removed has
\* returned, and the source has stayed so
RefreshedWithout(name) ==
    /\ name \notin EnabledNames
    /\ \E rid \in 1..MaxRefreshes :
          /\ refreshes[rid].state = "complete"
          /\ name \notin refreshes[rid].enabledSources

\* C14: with autoLoadLocalTypes on, every call of refreshDocumentation()
\* that has returned ran the discovery of the workspace's types.lua files
\* and merged their functions into the cache, also when the setting names
\* no enabled source.
C14_RefreshLoadsLocalTypes ==
    \A rid \in 1..MaxRefreshes :
        refreshes[rid].state = "complete" =>
            LocalTypesEntry(0).source \in CachedSources(cache)

\* C15: getAllFunctions and getFunctionDocumentation return functions of
\* currently enabled sources only: once a source is disabled or removed and
\* a refresh has run, none of its functions is returned.
C15_OnlyEnabledSourcesReturned ==
    \A name \in SourceNames :
        RefreshedWithout(name) =>
            /\ \A n \in DOMAIN getAllFunctions(cache) :
                  getAllFunctions(cache)[n].source # name
            /\ \A f \in FunctionNames :
                  getFunctionDocumentation(cache, f).source # name

\* the positions of the cache's entries that have the function
EntriesWith(cch, functionName) ==
    {k \in 1..Len(cch) : functionName \in cch[k].functions}

\* a step leaves every cached source at its position; new sources come last
PositionsKept ==
    /\ Len(cache') >= Len(cache)
    /\ \A k \in 1..Len(cache) : cache'[k].source = cache[k].source

\* the lookup's answer is the function of the first entry that has it
FirstEntryWins ==
    \A f \in FunctionNames :
        LET found == EntriesWith(cache, f)
        IN  getFunctionDocumentation(cache, f) =
                IF found = {} THEN Undefined
                ELSE FunctionDoc(f, cache[CHOOSE k \in found :
                                             \A j \in found : k <= j].source)

\* C16: getFunctionDocumentation(name) returns the FunctionDoc of the
\* earliest inserted cache entry that has the name, and undefined exactly
\* when no entry has it; a source that is cached again keeps its position,
\* so the cache's order is the order of first insertion.
C16_FirstInsertedWins == []FirstEntryWins /\ [][PositionsKept]_vars

\* ox_lib, cached first and cached again by the second refresh, answers for
\* G although natives has it too; L comes from the local file
C16_Witness ==
    /\ refreshes[2].state = "complete"
    /\ Len(cache) = 3
    /\ cache[1].source = "ox_lib"
    /\ EntriesWith(cache, "G") = {1, 2}
    /\ getFunctionDocumentation(cache, "G") = FunctionDoc("G", "ox_lib")
    /\ getFunctionDocumentation(cache, "L") =
          FunctionDoc("L", LocalTypesEntry(0).source)

\* the refresh calls and sources that a step reports as not modified
ReportedNotModified ==
    {p \in (1..MaxRefreshes) \X SourceNames :
        /\ p[2] \in refreshes'[p[1]].upToDate
        /\ p[2] \notin refreshes[p[1]].upToDate}

\* a step in which a download is answered with 304 leaves every entry as it
\* is, and the handler does not reach the parser
NotModifiedKeepsEntry ==
    ReportedNotModified # {} =>
        /\ cache' = cache
        /\ cacheFile' = cacheFile
        /\ stored' = stored
        /\ \A download \in downloads : \A now \in ConditionalTimes :
              ~downloadAndParseSource(cache, download.source, NotModified,
                                      now).parsed

\* a download that begins in a step sends If-None-Match with the cached
\* entry's etag and If-Modified-Since with its lastModified, and neither
\* header when the entry has no such field or there is no entry
ValidatorsSent ==
    \A download \in downloads' \ downloads :
        /\ download.sent = CacheGet(cache', download.source.name).etag
        /\ download.since = CacheGet(cache', download.source.name).lastModified

\* C17: a download answered with 304 leaves the cached entry as it is, its
\* functions, lastUpdate, etag and lastModified, and runs no parser; the
\* request carries If-None-Match exactly when the cached entry has an etag
\* and If-Modified-Since exactly when it has a lastModified.
C17_NotModifiedLeavesEntry ==
    [][NotModifiedKeepsEntry /\ ValidatorsSent]_vars

\* the second refresh asked with the etag only and was answered 304 after
\* the first refresh had ended at time 2: the entry still has the first
\* answer's time
C17_Witness ==
    /\ "ox_lib" \in refreshes[2].upToDate
    /\ refreshes[2].state = "loading"
    /\ CacheGet(cache, "ox_lib").etag = "etag-v2"
    /\ CacheGet(cache, "ox_lib").lastModified = ""
    /\ CacheGet(cache, "ox_lib").lastUpdate = 1
    /\ CacheGet(cache, LocalTypesEntry(0).source).lastUpdate = 2

----------------------------------------------------------------------------
(* fetchWithRetries.                                                        *)

Settled == fetchPc \in {"returned", "thrown"}

Retryable(outcome) == outcome.kind = "error" \/ outcome.status >= 500

\* the attempts so far, the waits between them and the result
BoundedRetries ==
    LET n == Len(attemptLog)
    IN  /\ n <= 4
        /\ \A k \in 1..(n - 1) : Retryable(attemptLog[k].outcome)
        /\ Len(delayLog) = (IF Settled THEN n - 1 ELSE n)
        /\ delayLog = SubSeq(<<500, 1000, 2000>>, 1, Len(delayLog))
        /\ \A k \in 1..n :
              ~Retryable(attemptLog[k].outcome) =>
                  /\ k = n
                  /\ fetchPc = "returned"
                  /\ fetchResult = attemptLog[k].outcome
        /\ n = 4 => Settled
        /\ Settled =>
              /\ fetchResult = attemptLog[n].outcome
              /\ fetchPc = "returned" <=> fetchResult.kind = "response"
              /\ Retryable(fetchResult) => n = 4

\* C18: fetchWithRetries ends after at most four attempts; it tries again
\* only after a thrown error or a status of 500 or more, waits 500, 1000 and
\* 2000 ms before the second, third and fourth attempt, returns a response
\* below 500 at once, and after the fourth attempt returns the last response
\* or throws the last error.
C18_BoundedRetries == []BoundedRetries /\ <>Settled

\* 503, a network error and 500 are each retried after 500, 1000 and 2000
\* ms, and the fourth attempt's 503 is returned
C18_Witness ==
    /\ fetchPc = "returned"
    /\ Len(attemptLog) = 4
    /\ attemptLog[1].outcome = Answer(503)
    /\ attemptLog[2].outcome = Thrown("TypeError")
    /\ attemptLog[3].outcome = Answer(500)
    /\ fetchResult = Answer(503)
    /\ delayLog = <<500, 1000, 2000>>

\* C19: after an attempt that failed because the 30 seconds were over,
\* fetchWithRetries tries again, and a request of a later attempt that the
\* server answers in time gets that answer, which is returned when its
\* status is below 500.
C19_RetryAfterTimeoutSucceeds ==
    \A k \in 1..Len(attemptLog) :
        (/\ attemptLog[k].disposition.kind = "answer"
         /\ \E j \in 1..(k - 1) :
               attemptLog[j].outcome = Thrown("TimeoutError"))
        => /\ attemptLog[k].outcome = Answer(attemptLog[k].disposition.status)
           /\ attemptLog[k].disposition.status < 500 =>
                 fetchResult = Answer(attemptLog[k].disposition.status)

----------------------------------------------------------------------------
(* The download semaphore.                                                  *)

\* the tasks of the queue that a step starts
StartedFromQueue ==
    {k \in 1..Len(downloadQueue) :
        \E download \in downloads' \ downloads :
            /\ download.queued
            /\ Task(download.refresh, download.source) = downloadQueue[k]}

\* a step starts the queue's tasks from its head, leaves the others in their
\* order and puts the tasks of new calls behind them
QueueDiscipline ==
    LET n == Cardinality(StartedFromQueue)
    IN  /\ StartedFromQueue = 1..n
        /\ \A download \in downloads' \ downloads :
              download.queued =>
                  \E k \in StartedFromQueue :
                      Task(download.refresh, download.source) =
                          downloadQueue[k]
        /\ Len(downloadQueue') >= Len(downloadQueue) - n
        /\ \A k \in (n + 1)..Len(downloadQueue) :
              downloadQueue'[k - n] = downloadQueue[k]

\* C20: the tasks that found the semaphore full are queued and start in the
\* order in which runWithSemaphore was called for them: a queued task never
\* starts before a task queued earlier.
C20_QueueIsFifo == [][QueueDiscipline]_vars

\* the second refresh found both slots taken; the first of its two queued
\* tasks has started and the second still waits
C20_Witness ==
    /\ downloadQueue = <<Task(2, Source("natives", GoodUrl, TRUE))>>
    /\ \E download \in downloads :
          /\ download.queued
          /\ download.refresh = 2
          /\ download.source.name = "ox_lib"

----------------------------------------------------------------------------
(* Persistence and the clearing of the cache                               *)

\* an entry's function map: its keys and their FunctionDoc values
FunctionMap(entry) ==
    [f \in entry.functions |-> FunctionDoc(f, entry.source)]

\* the function map new Map(Object.entries(data.functions)) gives for the
\* property of the file that a source name keys
LoadedFunctionMap(file, sourceName) ==
    LET k    == CHOOSE k \in 1..Len(file.data) : file.data[k][1] = sourceName
        fns  == file.data[k][2].functions
    IN  [f \in {fns[j][1] : j \in 1..Len(fns)} |->
            fns[CHOOSE j \in 1..Len(fns) : fns[j][1] = f][2]]

SourcesOf(cch) == {cch[k].source : k \in 1..Len(cch)}

\* a new manager that reads the file saveCacheToFile wrote from a cache has
\* that cache's entries again
RoundTrip ==
    (Restart /\ cacheFile = saveCacheToFile(cache)) =>
        /\ SourcesOf(cache') = SourcesOf(cache)
        /\ \A k \in 1..Len(cache) :
              LET entry  == cache[k]
                  loaded == CacheGet(cache', entry.source)
              IN  /\ loaded.functions = entry.functions
                  /\ LoadedFunctionMap(cacheFile, entry.source)
                        = FunctionMap(entry)
                  /\ loaded.lastUpdate = entry.lastUpdate
                  /\ loaded.etag = entry.etag
                  /\ loaded.lastModified = entry.lastModified

OversizedRejected ==
    \A download \in downloads : \A now \in DocsTimes :
        LET response == Response("ok", "big", "", "")
            outcome  == downloadAndParseSource(cache, download.source,
                                               response, now)
        IN  DownloadSettles(download, response, now) =>
                /\ ~outcome.parsed
                /\ ~outcome.threw
                /\ cache' = cache
                /\ cacheFile' = cacheFile
                /\ refreshes'[download.refresh].state # "rejected"
                /\ downloads \ {download} \subseteq downloads'
                /\ \A k \in 1..Len(downloadQueue) :
                      \/ \E j \in 1..Len(downloadQueue') :
                            downloadQueue'[j] = downloadQueue[k]
                      \/ \E started \in downloads' \ downloads :
                            /\ started.source = downloadQueue[k].source
                            /\ started.refresh = downloadQueue[k].refresh

\* C23: a downloaded body longer than 10 * 1024 * 1024 characters is
\* rejected before any parser is invoked: the source's cache entry is not
\* created or modified, the failure is reported for that source only, and
\* sibling sources are unaffected.
C23_OversizedBodyRejected == [][OversizedRejected]_vars

\* a refresh has completed in which the body of natives was over the limit
\* and the body of ox_lib, exactly at the limit, was parsed and cached
C23_Witness ==
    /\ refreshes[1].state = "complete"
    /\ refreshes[2].state = "idle"
    /\ CacheGet(cache, "natives") = NoEntry
    /\ stored["natives"] = ""
    /\ stored["ox_lib"] = "full"
    /\ CacheGet(cache, "ox_lib") # NoEntry

----------------------------------------------------------------------------
(* The natives parser's properties                                         *)

\* the parameters and returns of a well-formed entry hold one record for
\* each object among the items, in the items' order
ItemsKept(docs, value) ==
    IF value.type = "array"
    THEN Len(docs) = Len(SelectSeq(value.items,
                                   LAMBDA item : item.type = "object"))
    ELSE IF value.type = "object" THEN Len(docs) = 1
    ELSE docs = <<>>

\* C24: parseNatives never throws: content that is not valid JSON or whose
\* root is not an object yields an empty map; for an object root, every
\* entry whose value is not an object is skipped while every well-formed
\* entry is still extracted, and non-object items inside a parameters or
\* returns array are dropped individually without discarding the entry.
C24_MalformedNativesSkipped ==
    parsePc = "done" =>
        IF ~content.valid \/ content.root.type # "object"
        THEN functions = <<>>
        ELSE \A k \in 1..Len(content.root.props) :
                LET functionName == content.root.props[k][1]
                    native       == content.root.props[k][2]
                IN  IF native.type # "object"
                    THEN ~MapHas(functions, functionName)
                    ELSE /\ MapHas(functions, functionName)
                         /\ ItemsKept(MapGet(functions, functionName).parameters,
                                      Property(native, "parameters"))
                         /\ ItemsKept(MapGet(functions, functionName).returns,
                                      Property(native, "returns"))

----------------------------------------------------------------------------
(* The workspace scan and the explicit scan                                *)

\* a file of the workspace scan is opened: it has one armed timer after the
\* step, the one documentScanTimers names, and the timers of the other
\* documents and the files still to be opened are as they were; a file
\* fails to open: no timer changes and the other files are still to be
\* opened
WorkspaceFileSettles ==
    \A uri \in LuaUris :
        /\ WorkspaceFileOpened(uri) =>
              /\ Cardinality({t \in armedTimers' : t.uri = uri}) = 1
              /\ \A t \in armedTimers' :
                    t.uri = uri => documentScanTimers'[uri] = t.id
              /\ \A other \in Uris \ {uri} :
                    /\ documentScanTimers'[other] = documentScanTimers[other]
                    /\ {t \in armedTimers' : t.uri = other} = ArmedFor(other)
              /\ wsPending' = wsPending \ {uri}
        /\ WorkspaceFileFailed(uri) =>
              /\ armedTimers' = armedTimers
              /\ documentScanTimers' = documentScanTimers
              /\ diagnosticCollection' = diagnosticCollection
              /\ wsPending' = wsPending \ {uri}

\* C25: a workspace scan schedules exactly one debounced scan for every Lua
\* file that can be opened; a failure to open one file is logged, does not
\* reject the command, and does not prevent the remaining files from being
\* scheduled.
C25_WorkspaceScanToleratesFailures == [][WorkspaceFileSettles]_vars

\* a workspace scan has ended in which b.lua could not be opened and a.lua,
\* which no editor has open, was scheduled
C25_Witness ==
    /\ wsPending = {}
    /\ ~isOpen["a.lua"]
    /\ Cardinality(ArmedFor("a.lua")) = 1
    /\ burst["a.lua"] = 1
    /\ ArmedFor("b.lua") = {}
    /\ burst["b.lua"] = 0
    /\ ~quiet["b.lua"]
    /\ diagnosticCollection["b.lua"] = NotPublished

\* the source names documentation.json has entries for
PersistedSources ==
    {cacheFile.data[k][1] : k \in 1..Len(cacheFile.data)}

\* C26: functions extracted from local workspace types.lua files are not
\* part of the persisted documentation cache: after any refresh, the cache
\* file written by saveCacheToFile contains no entry for a local types.lua
\* source.
C26_LocalTypesNotPersisted ==
    \A name \in PersistedSources : ~StartsWithAt(name, "Local: ", 0)

\* C30: after a confirmed clearDocumentationCache has completed, the
\* in-memory cache stays empty and no persisted cache file exists until a
\* refresh or add-source operation is started afterwards - including when a
\* refresh was already in flight at the moment the clear ran.
C30_ClearedUntilNextOperation ==
    managerPc = "cleared" => cache = <<>> /\ ~cacheFile.exists

----------------------------------------------------------------------------
(* The severities of the diagnostics                                       *)

LoopCodes == {"fivem-while-no-wait", "fivem-repeat-no-wait"}

SeveritiesOf(ds) == {ds[k].severity : k \in 1..Len(ds)}

\* C27: in every published diagnostic set, severity Error appears only on
\* forward-reference diagnostics (code 'lua-function-order-error'),
\* severity Warning only on the while/repeat loop-without-Wait diagnostics,
\* and every other diagnostic has severity Information or Hint.
C27_SeverityByKind ==
    \A k \in 1..Len(diagnostics) :
        LET d == diagnostics[k]
        IN  /\ d.severity = "Error" => d.code = "lua-function-order-error"
            /\ d.severity = "Warning" => d.code \in LoopCodes
            /\ d.code \notin LoopCodes \cup {"lua-function-order-error"} =>
                  d.severity \in {"Information", "Hint"}

\* a scan has published an Error, a Warning, an Information and a Hint
C27_Witness ==
    /\ lexPc = "done"
    /\ SeveritiesOf(diagnostics) = {"Error", "Warning", "Information", "Hint"}

\* an explicit scan of a document leaves no timer armed for it
ExplicitScanSettles ==
    \A uri \in LuaUris :
        ScanCurrentFile(uri) =>
            /\ {t \in armedTimers' : t.uri = uri} = {}
            /\ documentScanTimers'[uri] = 0

\* C28: an explicit immediate scan (scanCurrentFile) of a document that has
\* a pending debounce timer takes the document from pending through
\* scanning to idle: after the explicit scan no debounce timer remains armed
\* for that document, so the pending trigger and the explicit request
\* together cause exactly one scan execution.
C28_ExplicitScanClearsPending == [][ExplicitScanSettles]_vars

----------------------------------------------------------------------------
(* findBlockEnd                                                            *)

\* the keyword pairs of the two callers
KeywordPairs == {<<"while", "end">>, <<"repeat", "until">>}

\* the lines after s up to n that are not blank and contain the keyword
LinesWith(ls, s, n, keyword) ==
    {m \in (s + 1)..n :
        /\ Trim(LineAt(ls, m)) # ""
        /\ Includes(Trim(LineAt(ls, m)), keyword)}

\* the depth after line n: 1, one more for each line with the start keyword
\* and one less for each line with the end keyword
DepthAfter(ls, s, n, startKeyword, endKeyword) ==
    1 + Cardinality(LinesWith(ls, s, n, startKeyword))
      - Cardinality(LinesWith(ls, s, n, endKeyword))

\* the lines whose decrement makes the depth 0
ClosingLines(ls, s, startKeyword, endKeyword) ==
    {n \in LinesWith(ls, s, Len(ls) - 1, endKeyword) :
        DepthAfter(ls, s, n, startKeyword, endKeyword) = 0}

\* C29: findBlockEnd(lines, s, startKw, endKw) starts with depth 1 and, over
\* the non-blank (after trim) lines after s in order, adds 1 for a line
\* containing startKw as a substring and then subtracts 1 for a line
\* containing endKw as a substring (at most one increment and one decrement
\* per line, so a line containing both leaves depth unchanged and never
\* returns); it returns the index of the first line at which the decrement
\* makes depth 0, and -1 if no such line exists.
C29_BlockEndIsFirstClosingLine ==
    lexPc = "done" =>
        \A s \in 0..(Len(context.sanitizedLines) - 1) : \A kw \in KeywordPairs :
            LET ls      == context.sanitizedLines
                closing == ClosingLines(ls, s, kw[1], kw[2])
                found   == findBlockEnd(ls, s, kw[1], kw[2])
            IN  /\ closing = {} => found = -1
                /\ closing # {} =>
                      /\ found \in closing
                      /\ \A n \in closing : found <= n
                /\ \A n \in LinesWith(ls, s, Len(ls) - 1, kw[1])
                              \cap LinesWith(ls, s, Len(ls) - 1, kw[2]) :
                      found # n

\* a while block whose end is found behind a blank sanitized line and a
\* line that opens and closes a block of its own
C29_Witness ==
    /\ lexPc = "done"
    /\ text = "while a do\n-- end\nwhile b do end\nend"
    /\ Trim(LineAt(context.sanitizedLines, 1)) = ""
    /\ findBlockEnd(context.sanitizedLines, 0, "while", "end") = 3
    /\ findBlockEnd(context.sanitizedLines, 2, "while", "end") = 3

----------------------------------------------------------------------------
(* The combine hint of the net event pass. *)

\* the line before line k registers, with RegisterNetEvent, the event the
\* handler of line k is attached to
RegisteredJustAbove(ls, k) ==
    /\ k >= 1
    /\ EventCall(LineAt(ls, k - 1), "RegisterNetEvent", TRUE).ok
    /\ EventCall(LineAt(ls, k), "AddEventHandler", FALSE).ok
    /\ EventCall(LineAt(ls, k - 1), "RegisterNetEvent", TRUE).event
           = EventCall(LineAt(ls, k), "AddEventHandler", FALSE).event

\* C31: the combine hint is reported on a line only when the line right
\* above it registers the same event name with RegisterNetEvent; a handler
\* separated from the registration by other lines draws no hint.
C31_CombineOnlyWhenAdjacent ==
    lexPc = "done" =>
        \A k \in 1..Len(diagnostics) :
            diagnostics[k].code = "fivem-combine-event" =>
                RegisteredJustAbove(context.lines, diagnostics[k].line)

----------------------------------------------------------------------------
(* The ranges of the deprecated-native hints. *)

DeprecatedPattern(code) ==
    CASE code = "fivem-performance-ped" -> "GetPlayerPed(-1)"
      [] code = "fivem-cache-coords" -> "GetEntityCoords(PlayerPedId())"
      [] OTHER -> ""

\* C32: the range of a deprecated-native hint starts at a column where the
\* sanitized line holds the pattern and spans the pattern, also when the
\* raw line holds an earlier occurrence in a string or a comment.
C32_RangeCoversCodeOccurrence ==
    lexPc = "done" =>
        \A k \in 1..Len(diagnostics) :
            LET dg == diagnostics[k]
                pattern == DeprecatedPattern(dg.code)
            IN  pattern # "" =>
                    /\ StartsWithAt(LineAt(context.sanitizedLines, dg.line),
                                    pattern, dg.start)
                    /\ dg.end = dg.start + Len(pattern)

----------------------------------------------------------------------------
(* Calls below a declaration that is repeated further down. *)

\* the name line d declares with `local function` is the name dg reports
DeclaresReported(ls, d, dg) ==
    LocalFunctionName(LineAt(ls, d))
        = Slice(LineAt(ls, dg.line), dg.start, dg.end)

\* C33: a call of a local function on a line below a `local function`
\* declaration of its name draws no forward-reference Error, also when a
\* later line declares the name again.
C33_NoErrorBelowDeclaration ==
    lexPc = "done" =>
        \A n \in DOMAIN OrderDiagnostics :
            \A d \in 0..(OrderDiagnostics[n].line - 1) :
                ~DeclaresReported(context.lines, d, OrderDiagnostics[n])

----------------------------------------------------------------------------
(* What a handler run for one document leaves alone. *)

\* a handler or a timer of uri runs in this step
HandlerOf(uri) ==
    \/ DidOpen(uri)
    \/ \E newText \in EditTexts : DidChange(uri, newText)
    \/ DidClose(uri)
    \/ \E id \in TimerIds : TimerFires([id |-> id, uri |-> uri])
    \/ ScanCurrentFile(uri)
    \/ WorkspaceFileOpened(uri)

\* the step keeps the timer and the diagnostics of other
OtherKept(other) ==
    /\ documentScanTimers'[other] = documentScanTimers[other]
    /\ {t \in armedTimers' : t.uri = other} = ArmedFor(other)
    /\ diagnosticCollection'[other] = diagnosticCollection[other]

OneDocumentOnly ==
    \A uri \in Uris :
        (\A other \in Uris \ {uri} : OtherKept(other)) \/ ~HandlerOf(uri)

\* C34: a trigger, a timer firing, a scan or a close of one document leaves
\* the pending timer and the published diagnostics of every other document
\* as they were.
C34_OtherDocumentsUntouched == [][OneDocumentOnly]_vars

\* both documents wait on timers of their own, one of them retriggered and
\* the other scanned before
C34_Witness ==
    /\ documentScanTimers["a.lua"] # 0
    /\ documentScanTimers["b.lua"] # 0
    /\ documentScanTimers["a.lua"] # documentScanTimers["b.lua"]
    /\ burst["a.lua"] = 1
    /\ burst["b.lua"] = MaxBurst
    /\ diagnosticCollection["a.lua"].published
    /\ ~diagnosticCollection["b.lua"].published

----------------------------------------------------------------------------
(* documentScanTimers and the timers the runtime holds. *)

\* C35: each document has at most one armed timer, and documentScanTimers
\* holds an entry for a document exactly when a timer is armed for it, the
\* entry being that timer.
C35_OneTimerPerDocument ==
    \A uri \in Uris :
        /\ Cardinality(ArmedFor(uri)) <= 1
        /\ documentScanTimers[uri] # 0 <=> ArmedFor(uri) # {}
        /\ \A t \in ArmedFor(uri) : documentScanTimers[uri] = t.id

\* one document retriggered with one timer armed, the other's timer fired
\* and its entry gone
C35_Witness ==
    /\ burst["a.lua"] = 2
    /\ Cardinality(ArmedFor("a.lua")) = 1
    /\ documentScanTimers["a.lua"] # 0
    /\ burstScans["b.lua"] = 1
    /\ documentScanTimers["b.lua"] = 0
    /\ ArmedFor("b.lua") = {}

----------------------------------------------------------------------------
(* The semaphore's counters and its progress. *)

SemaphoreCounters ==
    /\ activeDownloads \in 0..maxConcurrentDownloads
    /\ downloadQueue # <<>> => activeDownloads = maxConcurrentDownloads

\* the task of refresh call rid for the source waits in downloadQueue
Queued(rid, name) ==
    \E k \in 1..Len(downloadQueue) :
        /\ downloadQueue[k].refresh = rid
        /\ downloadQueue[k].source.name = name

\* processQueue has started the task: its download is in flight
StartedLater(rid, name) ==
    \E download \in downloads :
        /\ download.refresh = rid
        /\ download.source.name = name
        /\ download.queued

\* C36: activeDownloads stays within 0..2 and is 2 whenever downloadQueue
\* is not empty; when every started download settles, every queued download
\* starts at some time and every refreshDocumentation call completes.
C36_SemaphoreProgress ==
    /\ []SemaphoreCounters
    /\ \A rid \in 1..MaxRefreshes : \A name \in SourceNames :
          Queued(rid, name) ~> StartedLater(rid, name)
    /\ \A rid \in 1..MaxRefreshes :
          (refreshes[rid].state = "downloading")
              ~> (refreshes[rid].state = "complete")

\* both slots are taken by the first call, the second call's tasks wait
C36_Witness ==
    /\ activeDownloads = maxConcurrentDownloads
    /\ Len(downloadQueue) = 2
    /\ Queued(2, "ox_lib")
    /\ refreshes[1].state = "downloading"
    /\ refreshes[2].state = "downloading"

----------------------------------------------------------------------------
(* The keys of an extracted function map. *)

\* C37: in the function map the extractor returns for source name S, each
\* entry's key is the name of its FunctionDoc and its source is S.
C37_KeyIsNameOfItsDoc ==
    parsePc = "done" =>
        \A k \in 1..Len(functions) :
            /\ functions[k].value.name = JsString(functions[k].key)
            /\ functions[k].value.source = "natives"

----------------------------------------------------------------------------
(* The parameters of an extracted function. *)

RECURSIVE WithoutMarks(_)
\* s without its `?` characters
WithoutMarks(s) ==
    IF s = "" THEN ""
    ELSE (IF At(s, 0) = "?" THEN "" ELSE At(s, 0))
             \o WithoutMarks(Slice(s, 1, Len(s)))

\* the name and the type a line of CommentLineSet annotates
AnnotationOf(line) ==
    CASE line = "@param a number first" -> <<"a", "number">>
      [] line = "@param b string"       -> <<"b", "string">>
      [] line = "@param z table unused" -> <<"z", "table">>
      [] line = "@param d boolean"      -> <<"d", "boolean">>
      [] OTHER                          -> <<"", "">>

\* the types the comment block annotates the name with
AnnotatedTypes(commentLines, name) ==
    {AnnotationOf(commentLines[k])[2] :
        k \in {j \in 1..Len(commentLines) :
                  AnnotationOf(commentLines[j])[1] = name /\ name # ""}}

----------------------------------------------------------------------------
(* Long brackets that are never closed. *)

\* the text's opener has no closer of its level anywhere behind it
NeverClosed(s) ==
    /\ OpensWithBracket(s)
    /\ \A k \in (OpenerAt(s) + OpenerLevel(s) + 2)..Len(s) :
          ~StartsWithAt(s, "]" \o Equals(OpenerLevel(s)) \o "]", k)

\* C39: a block comment or long string whose opener has no closer of its
\* level is never closed: the loop ends at the end of the text still inside
\* it, and the sanitized text is the whole text masked to spaces with its
\* newlines kept.
C39_UnclosedMasksToTheEnd ==
    (lexPc # "input" /\ NeverClosed(text)) =>
        LET last == TokLoop(text, TokInit)
        IN  /\ last.i = Len(text)
            /\ IF OpenerAt(text) = 2
               THEN last.inBlockComment /\ ~last.inLongString
               ELSE last.inLongString /\ ~last.inBlockComment
            /\ Len(context.sanitizedText) = Len(text)
            /\ \A k \in 0..(Len(text) - 1) :
                  At(context.sanitizedText, k) =
                      IF At(text, k) = "\n" THEN "\n" ELSE " "

\* a level-1 block comment that holds a closer of level 0, a newline and a
\* letter and no `]=]`
C39_Witness ==
    /\ lexPc # "input"
    /\ text = "--[=[]]\na"
    /\ NeverClosed(text)
    /\ context.sanitizedText = "       \n "

----------------------------------------------------------------------------
(* The lexer's loop ends. *)

\* the loop is inside a block comment or long string and stands on a `]`:
\* isLongBracketEnd runs its scan with this level
ScansCloser ==
    /\ lexPc = "loop"
    /\ context.i < Len(text)
    /\ ~context.inLineComment
    /\ context.inBlockComment \/ context.inLongString
    /\ At(text, context.i) = "]"

ScanLevel ==
    IF context.inBlockComment THEN context.blockCommentLevel
    ELSE context.longStringLevel

\* the `=` the scan of isLongBracketEnd reads are at most level + 1
ScanBounded ==
    ScansCloser =>
        CountEquals(text, context.i + 1, ScanLevel + 1) <= ScanLevel + 1

\* an iteration moves the index on by one character at least
IndexAdvances ==
    (lexPc = "loop" /\ lexPc' = "loop") => context'.i >= context.i + 1

=============================================================================
